---- MODULE Spec2Model ----
(***************************************************************************)
(* Dashboard-Nexen: the query template engine (app/utils/filters.py and    *)
(* the indicator / dataset routers) and the ingestion pipeline             *)
(* (app/utils/transforms.py, app/routers/ingest.py, app/cron.py).          *)
(*                                                                         *)
(* Texts are sequences of one-character strings, so that strip, lower,     *)
(* startswith, `in` and replace are computed character by character as     *)
(* Python computes them.                                                   *)
(***************************************************************************)
EXTENDS Naturals, Integers, Sequences, FiniteSets, Bags, TLC

VARIABLES
    \* --- safety screen (is_safe_select) ---
    typed,      \* the candidate query text being put together
    nfrag,      \* number of fragments it is made of
    screenIn,   \* <<text>> last handed to is_safe_select, << >> before
    screenOut,  \* <<result>> of that call, << >> before
    \* --- placeholder expansion (apply_placeholders) ---
    exText,     \* the query text being put together
    exPieces,   \* number of pieces it is made of
    exFilters,  \* the filter map (allowed_filters) of the call
    exOut,      \* <<[text, params]>> returned by the call, << >> before
    \* --- the store and the query endpoints ---
    curated,    \* committed rows of curated_records (a bag)
    indicators, \* rows of the indicators table
    datasets,   \* rows of the datasets table
    lastReq,    \* the last query request handled and its outcome
    \* --- ingestion ---
    staging,    \* committed rows of staging_records (a bag)
    jobs,       \* committed rows of job_runs, by id
    calls,      \* the ingestion attempts made so far, by call number
    run,        \* the handler in flight and its position
    lastMat,    \* the last materialize_curated call and what it did
    lastCopy,   \* the last COPY buffer _copy_into_curated built
    tmpfiles,   \* the temporary CSV files on disk, by the call that made them
    lastClean,  \* the last cleanup of _worker_csv_copy and what it met
    \* --- the converters and the header resolver, called on their own ---
    argv,       \* <<arguments>> of the call, << >> before
    retv,       \* <<value returned>>, << >> before
    \* --- handlers running side by side, each with its own session ---
    sessions    \* the locals of each, << >> when none runs

screenVars == <<typed, nfrag, screenIn, screenOut>>

expandVars == <<exText, exPieces, exFilters, exOut>>

queryVars == <<indicators, datasets, lastReq>>

pureVars == <<argv, retv, sessions>>

ingestVars ==
    <<staging, jobs, calls, run, lastMat, lastCopy, tmpfiles, lastClean>>

(***************************************************************************)
(* Characters and text primitives (Python str methods).                    *)
(***************************************************************************)
BOM == "\\ufeff"      \* the one character U+FEFF

Whitespace == {" ", "\n", "\t"}

Uppercase ==
    <<"A","B","C","D","E","F","G","H","I","J","K","L","M","N","O","P","Q","R","S","T","U","V","W","X","Y","Z">>

Lowercase ==
    <<"a","b","c","d","e","f","g","h","i","j","k","l","m","n","o","p","q","r","s","t","u","v","w","x","y","z">>

UpperToLower ==
    [c \in {Uppercase[i] : i \in 1..26} |->
        Lowercase[CHOOSE i \in 1..26 : Uppercase[i] = c]]

\* str.lower(), on the alphabet the model draws texts from
Lower(s) ==
    [i \in 1..Len(s) |->
        IF s[i] \in DOMAIN UpperToLower THEN UpperToLower[s[i]] ELSE s[i]]

RECURSIVE Lstrip(_, _)
\* str.lstrip(chars): drops every leading character that is in chars
Lstrip(s, chars) ==
    IF s # << >> /\ Head(s) \in chars THEN Lstrip(Tail(s), chars) ELSE s

RECURSIVE Rstrip(_, _)
\* str.rstrip(chars)
Rstrip(s, chars) ==
    IF s # << >> /\ s[Len(s)] \in chars
    THEN Rstrip(SubSeq(s, 1, Len(s) - 1), chars)
    ELSE s

\* str.strip()
Strip(s) == Rstrip(Lstrip(s, Whitespace), Whitespace)

\* str.startswith / str.endswith / `p in s`
StartsWith(s, p) == Len(s) >= Len(p) /\ SubSeq(s, 1, Len(p)) = p

EndsWith(s, p) ==
    Len(s) >= Len(p) /\ SubSeq(s, Len(s) - Len(p) + 1, Len(s)) = p

Contains(s, p) ==
    \E i \in 1..(Len(s) + 1 - Len(p)) : SubSeq(s, i, i + Len(p) - 1) = p

RECURSIVE Replace(_, _, _)
\* str.replace(p, r): every non-overlapping occurrence, left to right
Replace(s, p, r) ==
    IF Len(s) < Len(p) THEN s
    ELSE IF SubSeq(s, 1, Len(p)) = p
         THEN r \o Replace(SubSeq(s, Len(p) + 1, Len(s)), p, r)
         ELSE <<Head(s)>> \o Replace(Tail(s), p, r)

RECURSIVE Count(_, _)
\* str.count(p)
Count(s, p) ==
    IF Len(s) < Len(p) THEN 0
    ELSE IF SubSeq(s, 1, Len(p)) = p
         THEN 1 + Count(SubSeq(s, Len(p) + 1, Len(s)), p)
         ELSE Count(Tail(s), p)

(***************************************************************************)
(* Text literals of the source.                                            *)
(***************************************************************************)
T_select == <<"s","e","l","e","c","t">>
T_SeLect == <<"S","e","L","e","c","t">>
T_drop == <<"d","r","o","p">>
T_delete == <<"d","e","l","e","t","e">>
T_update == <<"u","p","d","a","t","e">>
T_insert == <<"i","n","s","e","r","t">>
T_alter == <<"a","l","t","e","r">>
T_create == <<"c","r","e","a","t","e">>
T_semicolon == <<";">>
T_space == <<" ">>

ALLOWED_SQL_PREFIX == T_select

Spaced(w) == T_space \o w \o T_space

banned ==
    {T_semicolon, Spaced(T_drop), Spaced(T_delete), Spaced(T_update),
     Spaced(T_insert), Spaced(T_alter), Spaced(T_create)}

(***************************************************************************)
(* is_safe_select (filters.py)                                             *)
(***************************************************************************)
\* a plausible slip: strips every trailing semicolon (rstrip(';')), as the
\* indicator endpoints do before calling the screen
SafeSelectSubjectRstripAll(sql) ==
    LET s == Strip(Lstrip(sql, {BOM}))
    IN  Lower(Strip(Rstrip(s, {";"})))

\* the text the checks are made on: s after lines 9-13
SafeSelectSubject(sql) ==
    LET s  == Strip(Lstrip(sql, {BOM}))
        s2 == IF EndsWith(s, T_semicolon)
              THEN Strip(SubSeq(s, 1, Len(s) - 1))
              ELSE s
    IN  Lower(s2)

is_safe_select(sql) ==
    LET lower == SafeSelectSubject(sql)
    IN  IF ~StartsWith(lower, ALLOWED_SQL_PREFIX) THEN FALSE
        ELSE ~(\E b \in banned : Contains(lower, b))

(***************************************************************************)
(* The screen applied to texts put together from fragments.                *)
(***************************************************************************)
MaxFrags == 5

ScreenFragments ==
    {<<BOM>>, T_space, T_semicolon, T_SeLect, T_drop, <<"1">>}

ScreenIdle ==
    /\ typed = << >>
    /\ nfrag = 0
    /\ screenIn = << >>
    /\ screenOut = << >>

\* the tenant types one more fragment of the query text
TypeFragment ==
    /\ screenOut = << >>
    /\ nfrag < MaxFrags
    /\ \E f \in ScreenFragments : typed' = typed \o f
    /\ nfrag' = nfrag + 1
    /\ UNCHANGED <<screenIn, screenOut>>
    /\ UNCHANGED <<expandVars, queryVars, curated, ingestVars, pureVars>>

\* a caller hands the text to the screen
Screen ==
    /\ screenIn' = <<typed>>
    /\ screenOut' = <<is_safe_select(typed)>>
    /\ UNCHANGED <<typed, nfrag>>
    /\ UNCHANGED <<expandVars, queryVars, curated, ingestVars, pureVars>>

ScreenNext == TypeFragment \/ Screen

(***************************************************************************)
(* C3: what the screen accepts, stated on the text itself.                 *)
(***************************************************************************)
\* first position of s holding a character outside cs (Len(s)+1: none)
FirstOutside(s, cs) ==
    IF \E i \in 1..Len(s) : s[i] \notin cs
    THEN CHOOSE i \in 1..Len(s) :
            s[i] \notin cs /\ \A j \in 1..(i - 1) : s[j] \in cs
    ELSE Len(s) + 1

\* last position of s holding a character outside cs (0: none)
LastOutside(s, cs) ==
    IF \E i \in 1..Len(s) : s[i] \notin cs
    THEN CHOOSE i \in 1..Len(s) :
            s[i] \notin cs /\ \A j \in (i + 1)..Len(s) : s[j] \in cs
    ELSE 0

WithoutLeading(s, cs) == SubSeq(s, FirstOutside(s, cs), Len(s))

WithoutTrailing(s, cs) == SubSeq(s, 1, LastOutside(s, cs))

Trimmed(s) == WithoutTrailing(WithoutLeading(s, Whitespace), Whitespace)

WithoutOneSemicolon(s) ==
    IF s # << >> /\ s[Len(s)] = ";" THEN SubSeq(s, 1, Len(s) - 1) ELSE s

BannedWords == {T_drop, T_delete, T_update, T_insert, T_alter, T_create}

\* starts with select, no semicolon left, no space-delimited banned word
ReadOnlyShape(n) ==
    /\ Len(n) >= 6 /\ \A i \in 1..6 : n[i] = T_select[i]
    /\ \A i \in 1..Len(n) : n[i] # ";"
    /\ \A w \in BannedWords : ~Contains(n, T_space \o w \o T_space)

\* the text after the removals the claim lists, in the order it lists them
StatedSubject(t) ==
    Lower(WithoutOneSemicolon(Trimmed(WithoutLeading(t, {BOM}))))

\* ... and with the whitespace that stood before the removed semicolon
\* removed as well
AmendedSubject(t) ==
    Lower(WithoutTrailing(
            WithoutOneSemicolon(Trimmed(WithoutLeading(t, {BOM}))),
            Whitespace))

\* C3 as stated: is_safe_select(text) is true exactly when the text, after
\* removing leading byte-order marks, surrounding whitespace and at most one
\* trailing semicolon, lowercased, starts with select and holds no semicolon
\* and no space-delimited banned word.
C3_AsStated ==
    screenIn # << >> =>
        screenOut[1] = ReadOnlyShape(StatedSubject(screenIn[1]))

\* C3 (amended): is_safe_select(text) is true exactly when the text, after
\* removing leading byte-order marks, surrounding whitespace, at most one
\* trailing semicolon and the whitespace left in front of that semicolon,
\* lowercased, starts with select and holds no semicolon and no
\* space-delimited banned word; a text with two trailing semicolons, with a
\* statement after a semicolon, or not starting with select is rejected.
C3_SafeSelectExact ==
    screenIn # << >> =>
        LET t == screenIn[1]
            core == Trimmed(WithoutLeading(t, {BOM}))
        IN  /\ screenOut[1] = ReadOnlyShape(AmendedSubject(t))
            /\ EndsWith(core, <<";", ";">>) => screenOut[1] = FALSE
            /\ (\E i \in 1..(Len(core) - 1) :
                    core[i] = ";" /\ core[i + 1] \notin Whitespace \cup {";"})
                    => screenOut[1] = FALSE
            /\ ~StartsWith(Lower(core), T_select) => screenOut[1] = FALSE

\* an accepted text that starts with a byte-order mark and ends in a
\* semicolon with a space in front of it
C3_Witness ==
    /\ screenIn # << >>
    /\ screenOut = <<TRUE>>
    /\ StartsWith(screenIn[1], <<BOM>>)
    /\ EndsWith(screenIn[1], <<" ", ";">>)

(***************************************************************************)
(* apply_placeholders (filters.py)                                         *)
(***************************************************************************)
PH_tenant == <<"{","{","t","e","n","a","n","t","_","i","d","}","}">>
BIND_tenant == <<":","t","e","n","a","n","t","_","i","d">>
PH_date_field == <<"{","{","d","a","t","e","_","f","i","e","l","d","}","}">>
PH_from == <<"{","{","f","r","o","m","}","}">>
PH_to == <<"{","{","t","o","}","}">>
BIND_from == <<":","f","r","o","m">>
BIND_to == <<":","t","o">>
T_NULL == <<"N","U","L","L">>
T_dt_cadastro == <<"d","t","_","c","a","d","a","s","t","r","o">>
T_filter_open == <<"{","{","f","i","l","t","e","r",":">>
T_close == <<"}","}">>

\* a Python value that may be None: << >> is None, <<v>> is the value v
None == << >>

Some(v) == <<v>>

\* the keys the callers put in allowed_filters, in the order they put them
\* (a dict iterates in insertion order), and each key as text
FilterKeyOrder ==
    <<"tenant_id", "from", "to", "uf", "situacao_processo", "credor_code",
      "date_field">>

KeyText ==
    [k \in {"tenant_id", "from", "to", "uf", "situacao_processo",
            "credor_code", "date_field"} |->
        CASE k = "tenant_id" -> <<"t","e","n","a","n","t","_","i","d">>
          [] k = "from" -> <<"f","r","o","m">>
          [] k = "to" -> <<"t","o">>
          [] k = "uf" -> <<"u","f">>
          [] k = "situacao_processo" ->
                <<"s","i","t","u","a","c","a","o","_","p","r","o","c","e","s","s","o">>
          [] k = "credor_code" -> <<"c","r","e","d","o","r","_","c","o","d","e">>
          [] k = "date_field" -> <<"d","a","t","e","_","f","i","e","l","d">>]

\* dict.get(k): None for a missing key
Get(f, k) == IF k \in DOMAIN f THEN f[k] ELSE None

\* str.isalnum() on the model's alphabet
Alnum ==
    {"a", "b", "c", "d", "e", "f", "g", "h", "i", "j", "k", "l", "m", "n", "o", "p", "q", "r", "s", "t", "u", "v", "w", "x", "y", "z"} \cup
    {"A", "B", "C", "D", "E", "F", "G", "H", "I", "J", "K", "L", "M", "N", "O", "P", "Q", "R", "S", "T", "U", "V", "W", "X", "Y", "Z"} \cup
    {"0", "1", "2", "3", "4", "5", "6", "7", "8", "9"}

IsIdentChar(ch) == ch \in Alnum \/ ch \in {"_", "."}

\* str(n) of a one-digit tenant id
Str(n) == <<(<<"0","1","2","3","4","5","6","7","8","9">>)[n + 1]>>

\* a plausible slip: the tenant id formatted into the text
TenantInlined(sql, f) ==
    IF Get(f, "tenant_id") # None
    THEN Replace(sql, PH_tenant, Str(f["tenant_id"][1]))
    ELSE sql

\* line 25
TenantBound(sql, f) == Replace(sql, PH_tenant, BIND_tenant)

\* lines 29-37
DateFieldExpanded(s, f) ==
    LET df == Get(f, "date_field")
    IN  IF df # None
        THEN LET kept == SelectSeq(df[1], IsIdentChar)
                 safe == IF kept = << >> THEN T_dt_cadastro ELSE kept
             IN  Replace(s, PH_date_field, safe)
        ELSE s

\* a plausible slip: the token is bound even when there is no value
RangeExpandedAlwaysBound(st, f, name, ph, bind) ==
    IF name \in DOMAIN f /\ Get(f, name) # None
    THEN [text |-> Replace(st.text, ph, bind),
          params |-> st.params @@ (name :> f[name][1])]
    ELSE [text |-> Replace(st.text, ph, bind), params |-> st.params]

\* lines 39-49, for name = "from" and name = "to"
RangeExpanded(st, f, name, ph, bind) ==
    IF name \in DOMAIN f /\ Get(f, name) # None
    THEN [text |-> Replace(st.text, ph, bind),
          params |-> st.params @@ (name :> f[name][1])]
    ELSE [text |-> Replace(st.text, ph, T_NULL), params |-> st.params]

FilterPlaceholder(k) == T_filter_open \o KeyText[k] \o T_close

\* a plausible slip: the clause binds under a name params does not carry
FilterClauseOtherName(k) ==
    <<" ","A","N","D"," ">> \o KeyText[k] \o <<" ","="," ",":","f","_">>
        \o KeyText[k] \o <<" ">>

FilterClause(k) ==
    <<" ","A","N","D"," ">> \o KeyText[k] \o <<" ","="," ",":">>
        \o KeyText[k] \o <<" ">>

RECURSIVE FiltersExpanded(_, _, _)
\* lines 52-60: the loop over allowed_filters.items(), from its i-th key on
FiltersExpanded(st, f, i) ==
    IF i > Len(FilterKeyOrder) THEN st
    ELSE LET k == FilterKeyOrder[i]
         IN  IF k \notin DOMAIN f \/ k \in {"from", "to", "tenant_id"}
             THEN FiltersExpanded(st, f, i + 1)
             ELSE LET placeholder == FilterPlaceholder(k)
                      v == f[k]
                  IN  IF Contains(st.text, placeholder) /\ v # None
                      THEN FiltersExpanded(
                             [text |-> Replace(st.text, placeholder, FilterClause(k)),
                              params |-> (k :> v[1]) @@ st.params], f, i + 1)
                      ELSE IF Contains(st.text, placeholder)
                      THEN FiltersExpanded(
                             [text |-> Replace(st.text, placeholder, << >>),
                              params |-> st.params], f, i + 1)
                      ELSE FiltersExpanded(st, f, i + 1)

EmptyParams == [k \in {} |-> None]

apply_placeholders(sql, allowed_filters) ==
    LET s0 == DateFieldExpanded(TenantBound(sql, allowed_filters), allowed_filters)
        s1 == RangeExpanded([text |-> s0, params |-> EmptyParams],
                            allowed_filters, "from", PH_from, BIND_from)
        s2 == RangeExpanded(s1, allowed_filters, "to", PH_to, BIND_to)
        s3 == FiltersExpanded(s2, allowed_filters, 1)
    IN  IF "tenant_id" \in DOMAIN allowed_filters
        THEN [text |-> s3.text,
              params |-> ("tenant_id" :> allowed_filters["tenant_id"][1])
                            @@ s3.params]
        ELSE s3

(***************************************************************************)
(* The expansion applied to texts put together from pieces, under filter   *)
(* maps as the endpoints build them.                                       *)
(***************************************************************************)
MaxPieces == 3

ExpandPieces ==
    {PH_tenant, PH_date_field, FilterPlaceholder("uf"), PH_from, PH_to,
     T_select, T_space, <<"7">>}

\* a map from a set of optional entries: << >> leaves the key out
MapOf(entries) ==
    LET ks == {k \in DOMAIN entries : entries[k] # << >>}
    IN  [k \in ks |-> entries[k][1]]

\* the maps: tenant_id is the caller's (7) or left out; the other keys are
\* left out, None, or carry a value
ExpandFilterMaps ==
    {MapOf([tenant_id |-> t, date_field |-> d, uf |-> u, from |-> r,
            to |-> << >>]) :
        t \in {<< >>, <<Some(7)>>},
        d \in {<< >>, <<None>>, <<Some(<<"d","t">>)>>,
               <<Some(<<"a",";","7">>)>>, <<Some(<<";">>)>>},
        u \in {<< >>, <<None>>, <<Some("SP")>>},
        r \in {<<None>>, <<Some("2024-01-01")>>}}
    \cup
    {MapOf([tenant_id |-> <<Some(7)>>, date_field |-> << >>, uf |-> u,
            from |-> r, to |-> o]) :
        u \in {<< >>, <<Some("SP")>>},
        r \in {<< >>, <<None>>, <<Some("2024-01-01")>>},
        o \in {<< >>, <<None>>, <<Some("2024-12-31")>>}}

ExpandIdle ==
    /\ exText = << >>
    /\ exPieces = 0
    /\ exFilters = EmptyParams
    /\ exOut = << >>

ExpandStart ==
    /\ exText = << >>
    /\ exPieces = 0
    /\ exFilters \in ExpandFilterMaps
    /\ exOut = << >>

\* the tenant types one more piece of the query text
TypePiece ==
    /\ exOut = << >>
    /\ exPieces < MaxPieces
    /\ \E p \in ExpandPieces : exText' = exText \o p
    /\ exPieces' = exPieces + 1
    /\ UNCHANGED <<exFilters, exOut>>
    /\ UNCHANGED <<screenVars, queryVars, curated, ingestVars, pureVars>>

\* a caller expands the text
Expand ==
    /\ exOut = << >>
    /\ exOut' = <<apply_placeholders(exText, exFilters)>>
    /\ UNCHANGED <<exText, exPieces, exFilters>>
    /\ UNCHANGED <<screenVars, queryVars, curated, ingestVars, pureVars>>

ExpandNext == TypePiece \/ Expand

(***************************************************************************)
(* C2                                                                      *)
(***************************************************************************)
\* C2: for every text and every filter map that carries tenant_id,
\* apply_placeholders turns every {{tenant_id}} of the text into the bind
\* placeholder :tenant_id, returns params["tenant_id"] equal to the value
\* supplied, and does not write the tenant id value into the expanded text
\* (a text and a date_field that do not themselves hold the digit stay
\* free of it).
C2_TenantBound ==
    (exOut # << >> /\ "tenant_id" \in DOMAIN exFilters) =>
        LET out == exOut[1]
            tid == exFilters["tenant_id"][1]
            df  == Get(exFilters, "date_field")
        IN  /\ "tenant_id" \in DOMAIN out.params
            /\ out.params["tenant_id"] = tid
            /\ Count(out.text, BIND_tenant) >= Count(exText, PH_tenant)
            /\ Count(out.text, PH_tenant) = 0
            /\ (/\ ~Contains(exText, Str(tid))
                /\ (df # None => ~Contains(df[1], Str(tid))))
                    => ~Contains(out.text, Str(tid))

\* an expansion of a text holding {{tenant_id}} twice, under tenant 7
C2_Witness ==
    /\ exOut # << >>
    /\ "tenant_id" \in DOMAIN exFilters
    /\ Count(exText, PH_tenant) = 2
    /\ Count(exOut[1].text, BIND_tenant) = 2
    /\ exOut[1].params["tenant_id"] = 7

vars == <<screenVars, expandVars, queryVars, curated, ingestVars, pureVars>>

(***************************************************************************)
(* C12 - C14                                                               *)
(***************************************************************************)
\* the filter names the endpoints offer
FilterNames == {"uf", "situacao_processo", "credor_code"}

\* C12: whatever the filter map holds for a name (a value, None or no
\* entry), the expanded text holds no {{filter:<name>}} token any more; a
\* token whose name has a value became " AND <name> = :<name> " with the
\* value in params, and a name without a value has no AND clause and no
\* parameter.
C12_FilterTokensExpanded ==
    exOut # << >> =>
        \A k \in FilterNames :
            LET out == exOut[1]
                v == Get(exFilters, k)
            IN  /\ ~Contains(out.text, FilterPlaceholder(k))
                /\ (v # None /\ Contains(exText, FilterPlaceholder(k))) =>
                        /\ Count(out.text, FilterClause(k))
                                = Count(exText, FilterPlaceholder(k))
                        /\ k \in DOMAIN out.params
                        /\ out.params[k] = v[1]
                /\ v = None =>
                        /\ ~Contains(out.text, FilterClause(k))
                        /\ k \notin DOMAIN out.params

\* C13: {{from}} becomes :from with the value in params when the map has a
\* value for from, and the literal NULL with no from in params otherwise;
\* the same for {{to}}; what happens to one does not depend on the other.
C13_RangeBound ==
    exOut # << >> =>
        LET out == exOut[1]
            given(name) == Get(exFilters, name) # None
            nulls(name, ph) == IF given(name) THEN 0 ELSE Count(exText, ph)
        IN  /\ ~Contains(out.text, PH_from)
            /\ ~Contains(out.text, PH_to)
            /\ Count(out.text, BIND_from)
                    = IF given("from") THEN Count(exText, PH_from) ELSE 0
            /\ Count(out.text, BIND_to)
                    = IF given("to") THEN Count(exText, PH_to) ELSE 0
            /\ Count(out.text, T_NULL) = nulls("from", PH_from) + nulls("to", PH_to)
            /\ ("from" \in DOMAIN out.params) = given("from")
            /\ ("to" \in DOMAIN out.params) = given("to")
            /\ given("from") => out.params["from"] = exFilters["from"][1]
            /\ given("to") => out.params["to"] = exFilters["to"][1]

\* a text with both tokens, expanded with a value for to and none for from
C13_Witness ==
    /\ exOut # << >>
    /\ Contains(exText, PH_from)
    /\ Contains(exText, PH_to)
    /\ Get(exFilters, "from") = None
    /\ Get(exFilters, "to") # None
    /\ Contains(exOut[1].text, T_NULL)
    /\ Contains(exOut[1].text, BIND_to)
    /\ DOMAIN exOut[1].params = {"tenant_id", "to"}

\* C14: whatever the filter map holds for date_field, the expanded text
\* holds no {{date_field}} token any more: each was replaced by the
\* identifier characters of the value, or by dt_cadastro when none is left,
\* and params has no date_field.
C14_DateFieldExpanded ==
    exOut # << >> =>
        LET out == exOut[1]
            df == Get(exFilters, "date_field")
            kept == IF df = None THEN << >> ELSE SelectSeq(df[1], IsIdentChar)
            ident == IF kept = << >> THEN T_dt_cadastro ELSE kept
        IN  /\ ~Contains(out.text, PH_date_field)
            /\ Count(out.text, ident) >= Count(exText, PH_date_field)
            /\ "date_field" \notin DOMAIN out.params

(***************************************************************************)
(* The store as the query endpoints see it.  Query texts are drawn from a  *)
(* catalog over one table, t (curated_records); db.execute returns the     *)
(* rows the statement selects or raises when the store rejects the text.   *)
(***************************************************************************)
Tenants == {1, 2}

Q_all ==
    <<"s","e","l","e","c","t"," ","*"," ","f","r","o","m"," ","t">>
T_where_org ==
    <<" ","w","h","e","r","e"," ","o","r","g","a","n","i","z","a","t","i","o","n","_","i","d","=">>
T_wrap_open ==
    <<"S","E","L","E","C","T"," ","*"," ","F","R","O","M"," ","(">>
T_wrap_200 ==
    <<")"," ","t"," ","L","I","M","I","T"," ","2","0","0">>
T_wrap_50 ==
    <<")"," ","t"," ","L","I","M","I","T"," ","5","0">>
Q_drop ==
    <<"d","r","o","p"," ","t","a","b","l","e"," ","t">>
T_organization_id ==
    <<"o","r","g","a","n","i","z","a","t","i","o","n","_","i","d">>

Q_own == Q_all \o T_where_org \o PH_tenant

Q_other == Q_all \o T_where_org \o Str(2)

\* the texts a tenant may send
QueryTexts ==
    {Q_own, Q_all, Q_other, Q_own \o T_semicolon,
     Q_all \o T_semicolon \o Q_drop}

\* a row of curated_records; call is the ingestion call that wrote it
CuratedRow(org, credor, uf, call) ==
    [organization_id |-> org, credor_code |-> credor, uf |-> uf, call |-> call]

\* the store raises on this statement
SqlRejected(sql, params) ==
    \/ Contains(sql, T_semicolon)
    \/ Contains(sql, <<"{", "{">>)
    \/ Contains(sql, BIND_tenant) /\ "tenant_id" \notin DOMAIN params
    \/ ~Contains(sql, Q_all)

\* the organization_id the statement's WHERE clause asks for: << >> none
ScopeOf(sql, params) ==
    IF Contains(sql, Q_all \o T_where_org \o BIND_tenant)
    THEN <<params["tenant_id"]>>
    ELSE IF \E d \in Tenants : Contains(sql, Q_all \o T_where_org \o Str(d))
         THEN <<CHOOSE d \in Tenants : Contains(sql, Q_all \o T_where_org \o Str(d))>>
         ELSE << >>

\* the rows the statement selects from the store
SelectRows(sql, params, store) ==
    LET sc == ScopeOf(sql, params)
        hit == {r \in DOMAIN store : sc = << >> \/ r.organization_id = sc[1]}
    IN  [r \in hit |-> store[r]]

Outcome(endpoint, org, text, status, screened, executed, rows) ==
    [endpoint |-> endpoint, org |-> org, text |-> text, status |-> status,
     screened |-> screened, executed |-> executed, rows |-> rows]

NoRequest == Outcome("none", 0, << >>, "none", << >>, << >>, << >>)

Statement(sql, params) == [sql |-> sql, params |-> params]

\* Python's `a or b` on optional texts
PyOr(a, b) == IF a # None /\ a[1] # << >> THEN a ELSE b

(***************************************************************************)
(* routers/indicators_v2.py                                                *)
(***************************************************************************)
\* the row create_indicator leaves for (org, key), and its response
create_indicator(org, key, formula_sql, table) ==
    LET sql == Strip(Lstrip(formula_sql, {BOM}))
        existing == {r \in table : r.organization_id = org /\ r.key = key}
    IN  IF ~is_safe_select(sql)
        THEN [table |-> table,
              out |-> Outcome("create_indicator", org, formula_sql,
                              "400 unsafe", <<sql>>, << >>, << >>)]
        ELSE [table |->
                IF existing # {}
                THEN {IF r \in existing THEN [r EXCEPT !.formula_sql = sql]
                      ELSE r : r \in table}
                ELSE table \cup
                        {[id |-> Cardinality(table) + 1, organization_id |-> org,
                          key |-> key, formula_sql |-> sql,
                          credor_code |-> None]},
              out |-> Outcome("create_indicator", org, formula_sql, "200",
                              <<sql>>, << >>, << >>)]

\* a plausible slip: the preview runs the text whatever the screen says
preview_indicator_unscreened(org, formula_sql, store) ==
    LET sql == Rstrip(Strip(Lstrip(formula_sql, {BOM})), {";"})
        wrapped == T_wrap_open \o Replace(sql, PH_tenant, BIND_tenant)
                       \o T_wrap_200
        params == ("tenant_id" :> org)
    IN  IF SqlRejected(wrapped, params)
        THEN Outcome("preview_indicator", org, formula_sql, "500",
                     <<sql>>, <<Statement(wrapped, params)>>, << >>)
        ELSE Outcome("preview_indicator", org, formula_sql, "200",
                     <<sql>>, <<Statement(wrapped, params)>>,
                     <<SelectRows(wrapped, params, store)>>)

preview_indicator(org, formula_sql, store) ==
    LET sql == Rstrip(Strip(Lstrip(formula_sql, {BOM})), {";"})
    IN  IF ~is_safe_select(sql)
        THEN Outcome("preview_indicator", org, formula_sql, "400 unsafe",
                     <<sql>>, << >>, << >>)
        ELSE LET wrapped == T_wrap_open \o Replace(sql, PH_tenant, BIND_tenant)
                                \o T_wrap_200
                 params == ("tenant_id" :> org)
             IN  IF SqlRejected(wrapped, params)
                 THEN Outcome("preview_indicator", org, formula_sql, "500",
                              <<sql>>, <<Statement(wrapped, params)>>, << >>)
                 ELSE Outcome("preview_indicator", org, formula_sql, "200",
                              <<sql>>, <<Statement(wrapped, params)>>,
                              <<SelectRows(wrapped, params, store)>>)

\* the filter values of a request body (IndicatorRunIn, PreviewIn)
RequestBodies ==
    {[from |-> None, to |-> None, uf |-> u, situacao_processo |-> None,
      credor_code |-> None, date_field |-> None] : u \in {None, Some("SP")}}

run_indicator(org, indicator_id, body, store, table) ==
    LET found == {r \in table : r.id = indicator_id /\ r.organization_id = org}
    IN  IF found = {}
        THEN Outcome("run_indicator", org, << >>, "404", << >>, << >>, << >>)
        ELSE
        LET row == CHOOSE r \in found : TRUE
            sql == Rstrip(Strip(Lstrip(row.formula_sql, {BOM})), {";"})
        IN  IF ~is_safe_select(sql)
            THEN Outcome("run_indicator", org, row.formula_sql, "400 unsafe",
                         <<sql>>, << >>, << >>)
            ELSE
            LET ex == apply_placeholders(sql,
                        [tenant_id |-> Some(org), from |-> body.from,
                         to |-> body.to, uf |-> body.uf,
                         situacao_processo |-> body.situacao_processo,
                         credor_code |-> PyOr(body.credor_code, row.credor_code),
                         date_field |-> body.date_field])
            IN  IF SqlRejected(ex.text, ex.params)
                THEN Outcome("run_indicator", org, row.formula_sql,
                             "400 sql error", <<sql>>,
                             <<Statement(ex.text, ex.params)>>, << >>)
                ELSE Outcome("run_indicator", org, row.formula_sql, "200",
                             <<sql>>, <<Statement(ex.text, ex.params)>>,
                             <<SelectRows(ex.text, ex.params, store)>>)

(***************************************************************************)
(* routers/datasets.py                                                     *)
(***************************************************************************)
create_dataset(org, query_sql, table) ==
    IF ~is_safe_select(query_sql)
    THEN [table |-> table,
          out |-> Outcome("create_dataset", org, query_sql, "400 unsafe",
                          <<query_sql>>, << >>, << >>)]
    ELSE IF ~Contains(query_sql, PH_tenant)
            /\ ~Contains(Lower(query_sql), T_organization_id)
    THEN [table |-> table,
          out |-> Outcome("create_dataset", org, query_sql, "400 no tenant",
                          <<query_sql>>, << >>, << >>)]
    ELSE [table |-> table \cup
                      {[id |-> Cardinality(table) + 1, organization_id |-> org,
                        query_sql |-> query_sql]},
          out |-> Outcome("create_dataset", org, query_sql, "200",
                          <<query_sql>>, << >>, << >>)]

preview_dataset(org, query_sql, body, store) ==
    IF ~is_safe_select(query_sql)
    THEN Outcome("preview_dataset", org, query_sql, "400 unsafe",
                 <<query_sql>>, << >>, << >>)
    ELSE
    LET ex == apply_placeholders(query_sql,
                [tenant_id |-> Some(org), from |-> body.from, to |-> body.to,
                 uf |-> body.uf, situacao_processo |-> body.situacao_processo,
                 credor_code |-> body.credor_code])
        wrapped == T_wrap_open \o ex.text \o T_wrap_50
    IN  IF SqlRejected(wrapped, ex.params)
        THEN Outcome("preview_dataset", org, query_sql, "500", <<query_sql>>,
                     <<Statement(wrapped, ex.params)>>, << >>)
        ELSE Outcome("preview_dataset", org, query_sql, "200", <<query_sql>>,
                     <<Statement(wrapped, ex.params)>>,
                     <<SelectRows(wrapped, ex.params, store)>>)

(***************************************************************************)
(* Requests of the tenants against a store that holds rows of both.        *)
(***************************************************************************)
MaxDatasets == 1

MaxIndicators == 1

IndicatorKeys == {"k"}

QueryStores ==
    {SetToBag({CuratedRow(1, None, Some("SP"), 0)} \cup S) :
        S \in SUBSET {CuratedRow(2, None, Some("RJ"), 0)}}

QueryIdle ==
    /\ indicators = {}
    /\ datasets = {}
    /\ lastReq = NoRequest

CreateIndicator ==
    \E org \in Tenants, key \in IndicatorKeys, text \in QueryTexts :
        LET r == create_indicator(org, key, text, indicators)
        IN  /\ Cardinality(r.table) <= MaxIndicators
            /\ indicators' = r.table
            /\ lastReq' = r.out
            /\ UNCHANGED <<datasets, curated, ingestVars, pureVars, screenVars, expandVars>>

CreateDataset ==
    \E org \in Tenants, text \in QueryTexts :
        LET r == create_dataset(org, text, datasets)
        IN  /\ Cardinality(datasets) < MaxDatasets
            /\ datasets' = r.table
            /\ lastReq' = r.out
            /\ UNCHANGED <<indicators, curated, ingestVars, pureVars, screenVars, expandVars>>

PreviewIndicator ==
    \E org \in Tenants, text \in QueryTexts :
        /\ lastReq' = preview_indicator(org, text, curated)
        /\ UNCHANGED <<indicators, datasets, curated, ingestVars, pureVars, screenVars, expandVars>>

PreviewDataset ==
    \E org \in Tenants, text \in QueryTexts, body \in RequestBodies :
        /\ lastReq' = preview_dataset(org, text, body, curated)
        /\ UNCHANGED <<indicators, datasets, curated, ingestVars, pureVars, screenVars, expandVars>>

RunIndicator ==
    \E org \in Tenants, id \in 1..(Cardinality(indicators) + 1),
       body \in RequestBodies :
        /\ lastReq' = run_indicator(org, id, body, curated, indicators)
        /\ UNCHANGED <<indicators, datasets, curated, ingestVars, pureVars, screenVars, expandVars>>

QueryNext ==
    \/ CreateIndicator
    \/ CreateDataset
    \/ PreviewIndicator
    \/ PreviewDataset
    \/ RunIndicator

(***************************************************************************)
(* C1, C4                                                                  *)
(***************************************************************************)
\* the rows of the store that belong to tenant org
OwnRows(store, org) ==
    [r \in {x \in DOMAIN store : x.organization_id = org} |-> store[r]]

\* the text of the last request is one the tenant has saved through
\* create_indicator or create_dataset
SavedByTenant ==
    \/ \E r \in indicators :
            /\ r.organization_id = lastReq.org
            /\ r.formula_sql = Strip(Lstrip(lastReq.text, {BOM}))
    \/ \E r \in datasets :
            /\ r.organization_id = lastReq.org
            /\ r.query_sql = lastReq.text

ExecutingEndpoints == {"preview_indicator", "preview_dataset", "run_indicator"}

\* C1: the rows a tenant gets from a text that create_indicator or
\* create_dataset accepted depend only on the curated records of that
\* tenant: they are the rows the same statement selects from a store that
\* holds that tenant's records alone.
C1_Noninterference ==
    (/\ lastReq.endpoint \in ExecutingEndpoints
     /\ lastReq.status = "200"
     /\ SavedByTenant) =>
        LET st == lastReq.executed[1]
        IN  lastReq.rows[1]
                = SelectRows(st.sql, st.params, OwnRows(curated, lastReq.org))

\* C4: in dataset preview, indicator preview and indicator run a statement
\* is executed only when is_safe_select is true of the text the request
\* screened, the statement is built from that text, and a request whose
\* text fails the screen is rejected with nothing executed.
C4_ScreenBeforeExecute ==
    lastReq.endpoint \in ExecutingEndpoints =>
        /\ lastReq.executed # << >> =>
            /\ lastReq.screened # << >>
            /\ is_safe_select(lastReq.screened[1])
            /\ Len(lastReq.executed) = 1
            /\ Contains(Replace(lastReq.executed[1].sql, BIND_tenant, PH_tenant),
                        lastReq.screened[1])
        /\ (lastReq.screened # << >> /\ ~is_safe_select(lastReq.screened[1])) =>
            /\ lastReq.status = "400 unsafe"
            /\ lastReq.executed = << >>
            /\ lastReq.rows = << >>

\* a stored indicator was run and returned rows, after the screen passed
C4_Witness ==
    /\ lastReq.endpoint = "run_indicator"
    /\ lastReq.status = "200"
    /\ lastReq.executed # << >>
    /\ lastReq.rows # << >>
    /\ is_safe_select(lastReq.screened[1])

\* C15: in indicator run, indicator preview and dataset preview, when the
\* store raises on a statement built from a text that passed the screen,
\* the request ends in the query-error outcome, which is not the
\* unsafe-query rejection and not an unhandled failure.
C15_QueryErrorReported ==
    (/\ lastReq.endpoint \in ExecutingEndpoints
     /\ lastReq.executed # << >>
     /\ SqlRejected(lastReq.executed[1].sql, lastReq.executed[1].params)) =>
        /\ lastReq.status = "400 sql error"
        /\ lastReq.status # "400 unsafe"
        /\ lastReq.status # "500"

(***************************************************************************)
(* Ingestion: utils/transforms.py, routers/ingest.py, cron.py.             *)
(* The rows of one input share one shape, so an input is a row and the     *)
(* number of times it occurs; the tables are bags.                         *)
(***************************************************************************)
BATCH_SIZE == 2000

BATCH == 20000

Min(a, b) == IF a < b THEN a ELSE b

Max(a, b) == IF a < b THEN b ELSE a

Upper(s) ==
    [i \in 1..Len(s) |->
        IF \E k \in 1..26 : Lowercase[k] = s[i]
        THEN Uppercase[CHOOSE k \in 1..26 : Lowercase[k] = s[i]]
        ELSE s[i]]

Take(s, n) == SubSeq(s, 1, Min(Len(s), n))

\* a source row: the columns the model follows
SourceRow(org, credor, uf) ==
    [organization_id |-> org, credor_code |-> credor, uf |-> uf]

\* df["uf"].astype(str).str.upper().str.strip().str[:2]
UfNormalized(u) ==
    IF u = None THEN Some(<<"N", "O">>)
    ELSE Some(Take(Strip(Upper(u[1])), 2))

\* one row through _map_headers_and_normalize
_map_headers_and_normalize(raw, organization_id, credor_code) ==
    SourceRow(Some(organization_id),
              IF PyOr(credor_code, None) # None THEN credor_code
              ELSE raw.credor_code,
              UfNormalized(raw.uf))

\* a plausible slip: the tenant is read from the row when the row has one
CuratedRecordFromRow(raw, organization_id, credor_code, call) ==
    CuratedRow(IF raw.organization_id # None THEN raw.organization_id[1]
               ELSE organization_id,
               PyOr(credor_code, raw.credor_code), PyOr(raw.uf, None), call)

\* the CuratedRecord materialize_curated builds from a row
CuratedRecordOf(raw, organization_id, credor_code, call) ==
    CuratedRow(organization_id, PyOr(credor_code, raw.credor_code),
               PyOr(raw.uf, None), call)

\* _to_jsonable rewrites timestamps, dates, numpy scalars and non-finite
\* floats; a field of a row here is null, a text or an integer, which it
\* returns as it is
_to_jsonable(value) == value

_row_to_jsonable(row) == [k \in DOMAIN row |-> _to_jsonable(row[k])]

\* the StagingRecord store_staging builds from a row
StagingRecordOf(raw, organization_id, call) ==
    [organization_id |-> organization_id, raw_json |-> _row_to_jsonable(raw),
     call |-> call]

\* n copies of rec added to a table
Added(table, rec, n) == IF n = 0 THEN table ELSE table (+) (rec :> n)

\* store_staging: one db.add per row, one commit; ok = the store accepts it
store_staging(n, raw, organization_id, call, table, ok) ==
    IF n = 0 \/ ok
    THEN [staging |-> Added(table, StagingRecordOf(raw, organization_id, call), n),
          raised |-> FALSE, returned |-> Some(n)]
    ELSE [staging |-> table, raised |-> TRUE, returned |-> None]

\* the locals of materialize_curated before the first row
MatStart(n, store) ==
    [remaining |-> n, batch |-> 0, count |-> 0, flushes |-> << >>,
     after |-> << >>, maxbuf |-> 0, store |-> store, raised |-> FALSE]

\* if len(batch) >= BATCH_SIZE
FlushDue(batch) == batch >= BATCH_SIZE

\* a plausible slip: the rest of the input is left in the buffer
FinalFlushSkipped(batch) == FALSE

\* if batch
FinalFlushDue(batch) == batch > 0

\* a plausible slip: the batch of a failed flush stays in the store
FlushKeepingFailed(st, rec, ok) ==
    IF ok
    THEN [st EXCEPT !.store = Added(@, rec, st.batch),
                    !.flushes = Append(@, st.batch),
                    !.batch = 0,
                    !.after = Append(@, 0)]
    ELSE [st EXCEPT !.store = Added(@, rec, st.batch), !.raised = TRUE]

\* db.add_all(batch); db.commit(); batch.clear()
Flush(st, rec, ok) ==
    IF ok
    THEN [st EXCEPT !.store = Added(@, rec, st.batch),
                    !.flushes = Append(@, st.batch),
                    !.batch = 0,
                    !.after = Append(@, 0)]
    ELSE [st EXCEPT !.raised = TRUE]

\* the loop over staging_rows and the flush after it; the rows up to the
\* next flush are read in one step; failAt is the flush the store refuses
RECURSIVE MaterializeLoop(_, _, _)
MaterializeLoop(st, rec, failAt) ==
    IF st.raised THEN st
    ELSE IF st.remaining = 0
    THEN IF FinalFlushDue(st.batch)
         THEN Flush(st, rec, Len(st.flushes) + 1 # failAt)
         ELSE st
    ELSE LET take == Min(st.remaining, BATCH_SIZE - st.batch)
             rd == [st EXCEPT !.remaining = @ - take,
                              !.batch = @ + take,
                              !.count = @ + take,
                              !.maxbuf = Max(@, st.batch + take)]
         IN  MaterializeLoop(IF FlushDue(rd.batch)
                             THEN Flush(rd, rec, Len(rd.flushes) + 1 # failAt)
                             ELSE rd,
                             rec, failAt)

materialize_curated(n, raw, organization_id, credor_code, call, store, failAt) ==
    LET st == MaterializeLoop(MatStart(n, store),
                              CuratedRecordOf(raw, organization_id,
                                              credor_code, call),
                              failAt)
    IN  [call |-> call, n |-> n, organization_id |-> organization_id,
         failAt |-> failAt, flushes |-> st.flushes, after |-> st.after,
         maxbuf |-> st.maxbuf, read |-> st.count, left |-> st.batch,
         store |-> st.store, raised |-> st.raised,
         returned |-> IF st.raised THEN None ELSE Some(st.count)]

\* the flushes a call over n rows can reach
FlushesOf(n) == (n + BATCH_SIZE - 1) \div BATCH_SIZE

(***************************************************************************)
(* JobRun rows and the session that writes them.                           *)
(***************************************************************************)
Log(text, n) == [text |-> text, n |-> n]

\* a JobRun as it is first committed; seen lists the statuses committed and
\* commits what every commit of the row left of status and finished_at
JobRun(organization_id, target_type, status, logs, call) ==
    [organization_id |-> organization_id, target_type |-> target_type,
     status |-> status, finished_at |-> FALSE, logs |-> logs, call |-> call,
     seen |-> <<status>>,
     commits |-> <<[status |-> status, finished_at |-> FALSE]>>]

\* a plausible slip: the background job is created as already running
QueuedJobRunAsRunning(organization_id, call) ==
    JobRun(organization_id, "ingest_csv", "running", Log("path", 0), call)

\* the JobRun ingest_csv_async creates
QueuedJobRun(organization_id, call) ==
    JobRun(organization_id, "ingest_csv", "queued", Log("path", 0), call)

\* the JobRun ingest_sql and _run_recurring_ingest create
RunningJobRun(organization_id, call) ==
    JobRun(organization_id, "datasource", "running", Log("", 0), call)

Merge(job, pending) ==
    [f \in DOMAIN job |-> IF f \in DOMAIN pending THEN pending[f] ELSE job[f]]

Seen(old, new) ==
    LET c == [new EXCEPT !.commits =
                    Append(@, [status |-> new.status,
                               finished_at |-> new.finished_at])]
    IN  IF new.status = old.status THEN c
        ELSE [c EXCEPT !.seen = Append(@, new.status)]

\* db.commit() of the pending changes to JobRun id.  After a failed flush
\* the session's transaction is inactive until rollback(), and after a
\* failed COPY the connection's transaction is aborted: the commit (or the
\* UPDATE before it) raises and writes nothing.
Commit(table, id, pending, broken) ==
    IF broken
    THEN [jobs |-> table, raised |-> TRUE]
    ELSE [jobs |-> [table EXCEPT ![id] = Seen(@, Merge(@, pending))],
          raised |-> FALSE]

\* what lastMat keeps of a materialize_curated call
Report(m) ==
    [call |-> m.call, n |-> m.n, organization_id |-> m.organization_id,
     failAt |-> m.failAt, flushes |-> m.flushes, after |-> m.after,
     maxbuf |-> m.maxbuf, read |-> m.read, left |-> m.left,
     raised |-> m.raised, returned |-> m.returned]

(***************************************************************************)
(* routers/ingest.py: the endpoints                                        *)
(***************************************************************************)
\* ingest_sql from the try on; r is the request with its JobRun
ingest_sql(table, stg, store, r, srcOk, stagingOk, failAt) ==
    LET rows == _map_headers_and_normalize(r.row, r.org, None)
        st == store_staging(r.n, rows, r.org, r.call, stg, stagingOk)
        mat == materialize_curated(r.n, rows, r.org, None, r.call, store, failAt)
        raisedIn == ~srcOk \/ st.raised \/ mat.raised
        broken == srcOk /\ (st.raised \/ mat.raised)
        pending == IF raisedIn
                   THEN [status |-> "error", logs |-> Log("error", 0)]
                   ELSE [status |-> "success", logs |-> Log("Ingeridos", r.n)]
        \* except: jr.status = 'error'; db.commit(); raise
        c1 == IF raisedIn THEN Commit(table, r.job, pending, broken)
              ELSE [jobs |-> table, raised |-> FALSE]
        \* finally: jr.finished_at = utcnow(); db.commit()
        c2 == Commit(c1.jobs, r.job,
                     [status |-> pending.status, logs |-> pending.logs,
                      finished_at |-> TRUE], broken)
    IN  [jobs |-> c2.jobs,
         staging |-> IF srcOk THEN st.staging ELSE stg,
         curated |-> IF srcOk /\ ~st.raised THEN mat.store ELSE store,
         mat |-> IF srcOk /\ ~st.raised THEN <<Report(mat)>> ELSE << >>,
         outcome |-> IF raisedIn \/ c2.raised THEN "500" ELSE "200"]

\* rows -> staging -> curated, as ingest_csv, ingest_xlsx and ingest_sheets
\* do it; loadOk = the upload could be read
IngestBody(stg, store, r, loadOk, stagingOk, failAt) ==
    LET rows == _map_headers_and_normalize(r.row, r.org, r.credor)
        st == store_staging(r.n, rows, r.org, r.call, stg, stagingOk)
        mat == materialize_curated(r.n, rows, r.org, r.credor, r.call, store,
                                   failAt)
    IN  [staging |-> IF loadOk THEN st.staging ELSE stg,
         curated |-> IF loadOk /\ ~st.raised THEN mat.store ELSE store,
         mat |-> IF loadOk /\ ~st.raised THEN <<Report(mat)>> ELSE << >>,
         raised |-> ~loadOk \/ st.raised \/ mat.raised]

ingest_csv(stg, store, r, loadOk, stagingOk, failAt) ==
    LET b == IngestBody(stg, store, r, loadOk, stagingOk, failAt)
    IN  [staging |-> b.staging, curated |-> b.curated, mat |-> b.mat,
         outcome |-> IF b.raised THEN "400" ELSE "200"]

ingest_xlsx(stg, store, r, loadOk, stagingOk, failAt) ==
    LET b == IngestBody(stg, store, r, loadOk, stagingOk, failAt)
    IN  [staging |-> b.staging, curated |-> b.curated, mat |-> b.mat,
         outcome |-> IF b.raised THEN "400" ELSE "200"]

ingest_sheets(stg, store, r, loadOk, stagingOk, failAt) ==
    LET b == IngestBody(stg, store, r, loadOk, stagingOk, failAt)
    IN  [staging |-> b.staging, curated |-> b.curated, mat |-> b.mat,
         outcome |-> IF b.raised THEN "500" ELSE "200"]

(***************************************************************************)
(* routers/ingest.py: the bulk path                                        *)
(***************************************************************************)
\* the columns of curated_records
CuratedTableColumns ==
    {"id", "organization_id", "credor_code", "processo", "devedor",
     "cpf_cnpj", "dt_cadastro", "uf", "faixa_vencimento", "dt_vencimento",
     "vl_titulo", "situacao_processo", "vl_total_repasse", "vl_saldo",
     "dt_ultimo_credito", "portador", "motivo_devolucao",
     "vl_honorario_devedor", "vl_tx_contrato", "comercial", "cobrador",
     "dt_encerrado", "dias_vencidos_cadastro", "created_at"}

\* cols of _copy_into_curated
CopyColumns ==
    {"organization_id", "credor_code", "processo", "devedor", "cpf_cnpj",
     "dt_cadastro", "uf", "faixa_vencimento", "dt_vencimento", "vl_titulo",
     "situacao_processo", "vl_total_repasse", "vl_saldo",
     "dt_ultimo_credito", "portador", "motivo_devolucao", "vl_hono"}

\* COPY curated_records (cols) FROM STDIN: the store refuses a column list
\* that names a column the table does not have
_copy_into_curated(n, raw, org_id, call, store) ==
    LET rec == CuratedRow(org_id, raw.credor_code, raw.uf, call)
        accepted == CopyColumns \subseteq CuratedTableColumns
    IN  [buf |-> Added(EmptyBag, rec, n),
         store |-> IF accepted THEN Added(store, rec, n) ELSE store,
         raised |-> ~accepted]

\* the loop of _worker_csv_copy over the file, a batch at a time
RECURSIVE WorkerLoop(_, _, _, _, _)
WorkerLoop(st, raw, org_id, credor_code, call) ==
    IF st.raised \/ st.remaining = 0 THEN st
    ELSE LET size == Min(st.remaining, BATCH)
             cp == _copy_into_curated(
                        size,
                        _map_headers_and_normalize(raw, org_id, credor_code),
                        org_id, call, st.store)
         IN  WorkerLoop([remaining |-> st.remaining - size,
                         total |-> IF cp.raised THEN st.total
                                   ELSE st.total + size,
                         store |-> cp.store,
                         raised |-> cp.raised,
                         batches |-> Append(st.batches, size),
                         buf |-> cp.buf],
                        raw, org_id, credor_code, call)

\* a plausible slip: the cleanup leaves the file where it is
RemoveTempKept(files, path, ok) == files

\* os.remove(path_csv), failures swallowed
RemoveTemp(files, path, ok) == IF ok THEN files \ {path} ELSE files

\* header = the file has a header line
_worker_csv_copy(table, store, r, header) ==
    LET w == WorkerLoop([remaining |-> r.n, total |-> 0, store |-> store,
                         raised |-> FALSE, batches |-> << >>,
                         buf |-> EmptyBag],
                        r.row, r.org, r.credor, r.call)
        raisedIn == ~header \/ w.raised
        aborted == header /\ w.raised
        upd == IF raisedIn
               THEN [status |-> "error", logs |-> Log("error", 0),
                     finished_at |-> TRUE]
               ELSE [status |-> "success", logs |-> Log("CSV importado", w.total),
                     finished_at |-> TRUE]
        c == Commit(table, r.job, upd, aborted)
    IN  [jobs |-> c.jobs,
         curated |-> IF header THEN w.store ELSE store,
         copy |-> IF header /\ w.batches # << >>
                  THEN <<[call |-> r.call, organization_id |-> r.org,
                          buf |-> w.buf, batches |-> w.batches]>>
                  ELSE << >>,
         outcome |-> IF c.raised THEN "raised" ELSE "done"]

(***************************************************************************)
(* cron.py: one data source of _run_recurring_ingest, from the try on      *)
(***************************************************************************)
DataSource(org, type, query, n, raw, credor) ==
    [organization_id |-> org, type |-> type, query |-> query, n |-> n,
     row |-> raw, credor |-> credor]

run_source(table, stg, store, r, ds, srcOk, stagingOk, failAt) ==
    LET loads == (ds.type = "sql" /\ ds.query) \/ ds.type = "google_sheets"
        st == store_staging(ds.n, ds.row, ds.organization_id, r.call, stg,
                            stagingOk)
        mat == materialize_curated(ds.n, ds.row, ds.organization_id, ds.credor,
                                   r.call, store, failAt)
        raisedIn == loads /\ (~srcOk \/ st.raised \/ mat.raised)
        broken == loads /\ srcOk /\ (st.raised \/ mat.raised)
        pending ==
            IF ds.type = "sql" /\ ~ds.query
            THEN [status |-> "error", logs |-> Log("query ausente", 0)]
            ELSE IF ~loads
            THEN [status |-> "success", logs |-> Log("Sem acao", 0)]
            ELSE IF raisedIn
            THEN [status |-> "error", logs |-> Log("error", 0)]
            ELSE [status |-> "success", logs |-> Log("Ingeridos", ds.n)]
        \* finally: jr.finished_at = utcnow(); db.commit()
        c == Commit(table, r.job,
                    [status |-> pending.status, logs |-> pending.logs,
                     finished_at |-> TRUE], broken)
    IN  [jobs |-> c.jobs,
         staging |-> IF loads /\ srcOk THEN st.staging ELSE stg,
         curated |-> IF loads /\ srcOk /\ ~st.raised THEN mat.store ELSE store,
         mat |-> IF loads /\ srcOk /\ ~st.raised THEN <<Report(mat)>> ELSE << >>,
         outcome |-> IF c.raised THEN "raised" ELSE "next"]

(***************************************************************************)
(* Ingestion attempts, one handler at a time.                              *)
(***************************************************************************)
MaxCalls == 2

MaxRows == 4500

MaxSources == 2

RowA == SourceRow(None, None, Some(<<"s", "p", " ">>))

RowB == SourceRow(Some(2), Some(<<"c", "9">>), None)

InputSizes == {0, 1, BATCH_SIZE, MaxRows}

Inputs == {[n |-> n, row |-> r] : n \in InputSizes, r \in {RowA, RowB}}

Credors == {None, Some(<<"c", "7">>)}

\* the recurring data sources a pass may find
DataSources ==
    {DataSource(1, "sql", TRUE, BATCH_SIZE + 1, RowB, None),
     DataSource(2, "google_sheets", TRUE, 1, RowA, Some(<<"c", "7">>)),
     DataSource(1, "sql", FALSE, 0, RowA, None),
     DataSource(2, "csv_upload", FALSE, 0, RowA, None)}

SourceQueues ==
    UNION {[1..k -> DataSources] : k \in 1..MaxSources}

Idle ==
    [pc |-> "idle", org |-> 0, call |-> 0, job |-> 0, n |-> 0, row |-> RowA,
     credor |-> None, queue |-> << >>]

Request(pc, org, call, job, n, raw, credor) ==
    [pc |-> pc, org |-> org, call |-> call, job |-> job, n |-> n, row |-> raw,
     credor |-> credor, queue |-> << >>]

\* an attempt as it starts, and as it ends
NewCall(kind, org, raw) ==
    [kind |-> kind, org |-> org, row |-> raw, done |-> FALSE,
     persisting |-> FALSE, outcome |-> ""]

Ended(c, persisting, outcome) ==
    [c EXCEPT !.done = TRUE, !.persisting = persisting, !.outcome = outcome]

PureIdle ==
    /\ argv = << >>
    /\ retv = << >>
    /\ sessions = << >>

IngestIdle ==
    /\ staging = EmptyBag
    /\ jobs = << >>
    /\ calls = << >>
    /\ run = Idle
    /\ lastMat = << >>
    /\ lastCopy = << >>
    /\ tmpfiles = {}
    /\ lastClean = << >>

IngestSqlBegin ==
    \E org \in Tenants, inp \in Inputs :
        /\ run.pc = "idle"
        /\ Len(calls) < MaxCalls
        /\ jobs' = Append(jobs, RunningJobRun(org, Len(calls) + 1))
        /\ calls' = Append(calls, NewCall("ingest_sql", org, inp.row))
        /\ run' = Request("ingest_sql", org, Len(calls) + 1, Len(jobs) + 1,
                          inp.n, inp.row, None)
        /\ lastMat' = << >>
        /\ lastCopy' = << >>
        /\ lastClean' = << >>
        /\ tmpfiles' = tmpfiles
        /\ UNCHANGED <<staging, curated, screenVars, expandVars, queryVars, pureVars>>

IngestSqlRun ==
    \E srcOk \in BOOLEAN, stagingOk \in BOOLEAN, failAt \in 0..FlushesOf(run.n) :
        LET o == ingest_sql(jobs, staging, curated, run, srcOk, stagingOk, failAt)
        IN  /\ run.pc = "ingest_sql"
            /\ jobs' = o.jobs
            /\ staging' = o.staging
            /\ curated' = o.curated
            /\ lastMat' = o.mat
            /\ lastCopy' = << >>
            /\ lastClean' = << >>
            /\ tmpfiles' = tmpfiles
            /\ calls' = [calls EXCEPT ![run.call] = Ended(@, srcOk, o.outcome)]
            /\ run' = Idle
            /\ UNCHANGED <<screenVars, expandVars, queryVars, pureVars>>

IngestCsv ==
    \E org \in Tenants, inp \in Inputs, credor \in Credors,
       loadOk \in BOOLEAN, stagingOk \in BOOLEAN, failAt \in 0..FlushesOf(MaxRows) :
        LET r == Request("ingest_csv", org, Len(calls) + 1, 0, inp.n, inp.row,
                         credor)
            o == ingest_csv(staging, curated, r, loadOk, stagingOk, failAt)
        IN  /\ run.pc = "idle"
            /\ Len(calls) < MaxCalls
            /\ failAt <= FlushesOf(inp.n)
            /\ staging' = o.staging
            /\ curated' = o.curated
            /\ lastMat' = o.mat
            /\ lastCopy' = << >>
            /\ lastClean' = << >>
            /\ tmpfiles' = tmpfiles
            /\ calls' = Append(calls, Ended(NewCall("ingest_csv", org, inp.row),
                                            loadOk, o.outcome))
            /\ UNCHANGED <<jobs, run, screenVars, expandVars, queryVars, pureVars>>

IngestXlsx ==
    \E org \in Tenants, inp \in Inputs,
       loadOk \in BOOLEAN, stagingOk \in BOOLEAN, failAt \in 0..FlushesOf(MaxRows) :
        LET r == Request("ingest_xlsx", org, Len(calls) + 1, 0, inp.n, inp.row,
                         None)
            o == ingest_xlsx(staging, curated, r, loadOk, stagingOk, failAt)
        IN  /\ run.pc = "idle"
            /\ Len(calls) < MaxCalls
            /\ failAt <= FlushesOf(inp.n)
            /\ staging' = o.staging
            /\ curated' = o.curated
            /\ lastMat' = o.mat
            /\ lastCopy' = << >>
            /\ lastClean' = << >>
            /\ tmpfiles' = tmpfiles
            /\ calls' = Append(calls, Ended(NewCall("ingest_xlsx", org, inp.row),
                                            loadOk, o.outcome))
            /\ UNCHANGED <<jobs, run, screenVars, expandVars, queryVars, pureVars>>

IngestSheets ==
    \E org \in Tenants, inp \in Inputs,
       loadOk \in BOOLEAN, stagingOk \in BOOLEAN, failAt \in 0..FlushesOf(MaxRows) :
        LET r == Request("ingest_sheets", org, Len(calls) + 1, 0, inp.n, inp.row,
                         None)
            o == ingest_sheets(staging, curated, r, loadOk, stagingOk, failAt)
        IN  /\ run.pc = "idle"
            /\ Len(calls) < MaxCalls
            /\ failAt <= FlushesOf(inp.n)
            /\ staging' = o.staging
            /\ curated' = o.curated
            /\ lastMat' = o.mat
            /\ lastCopy' = << >>
            /\ lastClean' = << >>
            /\ tmpfiles' = tmpfiles
            /\ calls' = Append(calls, Ended(NewCall("ingest_sheets", org, inp.row),
                                            loadOk, o.outcome))
            /\ UNCHANGED <<jobs, run, screenVars, expandVars, queryVars, pureVars>>

IngestCsvAsync ==
    \E org \in Tenants, inp \in Inputs, credor \in {None} :
        /\ run.pc = "idle"
        /\ Len(calls) < MaxCalls
        /\ jobs' = Append(jobs, QueuedJobRun(org, Len(calls) + 1))
        /\ calls' = Append(calls, NewCall("ingest_csv_async", org, inp.row))
        /\ run' = Request("worker", org, Len(calls) + 1, Len(jobs) + 1,
                          inp.n, inp.row, credor)
        /\ lastMat' = << >>
        /\ lastCopy' = << >>
        /\ lastClean' = << >>
        /\ tmpfiles' = tmpfiles \cup {Len(calls) + 1}
        /\ UNCHANGED <<staging, curated, screenVars, expandVars, queryVars, pureVars>>

WorkerCsvCopy ==
    \E header \in BOOLEAN :
        LET o == _worker_csv_copy(jobs, curated, run, header)
        IN  /\ run.pc = "worker"
            /\ jobs' = o.jobs
            /\ curated' = o.curated
            /\ lastCopy' = o.copy
            /\ lastMat' = << >>
            /\ lastClean' = << >>
            /\ tmpfiles' = tmpfiles
            /\ calls' = [calls EXCEPT
                            ![run.call] = Ended(@, o.copy # << >>, o.outcome)]
            /\ run' = [run EXCEPT !.pc = "worker_finally"]
            /\ UNCHANGED <<staging, screenVars, expandVars, queryVars, pureVars>>

\* finally: try: os.remove(path_csv) except: pass; removeOk = the removal
\* went through
WorkerFinally ==
    \E removeOk \in BOOLEAN :
        /\ run.pc = "worker_finally"
        /\ tmpfiles' = RemoveTemp(tmpfiles, run.call, removeOk)
        /\ lastClean' = <<[call |-> run.call, job |-> run.job,
                           removeOk |-> removeOk,
                           status |-> jobs[run.job].status,
                           outcome |-> calls[run.call].outcome]>>
        /\ lastMat' = << >>
        /\ lastCopy' = << >>
        /\ run' = Idle
        /\ UNCHANGED <<staging, curated, jobs, calls>>
        /\ UNCHANGED <<screenVars, expandVars, queryVars, pureVars>>

\* dss = the recurring data sources
CronStart ==
    \E dss \in SourceQueues :
        /\ run.pc = "idle"
        /\ Len(calls) + Len(dss) <= MaxCalls
        /\ run' = [Idle EXCEPT !.pc = "cron", !.queue = dss]
        /\ lastMat' = << >>
        /\ lastCopy' = << >>
        /\ lastClean' = << >>
        /\ tmpfiles' = tmpfiles
        /\ UNCHANGED <<staging, curated, jobs, calls>>
        /\ UNCHANGED <<screenVars, expandVars, queryVars, pureVars>>

CronCreateJob ==
    LET ds == Head(run.queue)
    IN  /\ run.pc = "cron"
        /\ run.job = 0
        /\ jobs' = Append(jobs, RunningJobRun(ds.organization_id, Len(calls) + 1))
        /\ calls' = Append(calls, NewCall("recurring", ds.organization_id, ds.row))
        /\ run' = [run EXCEPT !.job = Len(jobs) + 1, !.call = Len(calls) + 1,
                              !.org = ds.organization_id]
        /\ lastMat' = << >>
        /\ lastCopy' = << >>
        /\ lastClean' = << >>
        /\ tmpfiles' = tmpfiles
        /\ UNCHANGED <<staging, curated, screenVars, expandVars, queryVars, pureVars>>

CronRunSource ==
    \E srcOk \in BOOLEAN, stagingOk \in BOOLEAN,
       failAt \in 0..FlushesOf(BATCH_SIZE + 1) :
        LET ds == Head(run.queue)
            o == run_source(jobs, staging, curated, run, ds, srcOk, stagingOk,
                            failAt)
        IN  /\ run.pc = "cron"
            /\ run.job # 0
            /\ failAt <= FlushesOf(ds.n)
            /\ jobs' = o.jobs
            /\ staging' = o.staging
            /\ curated' = o.curated
            /\ lastMat' = o.mat
            /\ lastCopy' = << >>
            /\ lastClean' = << >>
            /\ tmpfiles' = tmpfiles
            /\ calls' = [calls EXCEPT
                            ![run.call] = Ended(@, o.mat # << >>, o.outcome)]
            /\ run' = IF o.outcome = "raised" \/ Tail(run.queue) = << >>
                      THEN Idle
                      ELSE [run EXCEPT !.queue = Tail(@), !.job = 0, !.call = 0]
            /\ UNCHANGED <<screenVars, expandVars, queryVars, pureVars>>

Next ==
    \/ IngestSqlBegin
    \/ IngestSqlRun
    \/ IngestCsv
    \/ IngestXlsx
    \/ IngestSheets
    \/ IngestCsvAsync
    \/ WorkerCsvCopy
    \/ WorkerFinally
    \/ CronStart
    \/ CronCreateJob
    \/ CronRunSource

(***************************************************************************)
(* C5 - C10                                                                *)
(***************************************************************************)
\* number of rows of a table that attempt c wrote
WrittenBy(table, c) ==
    BagCardinality([r \in {x \in DOMAIN table : x.call = c} |-> table[r]])

Terminal == {"success", "error"}

\* C5: a materialize_curated call over n rows that meets no persistence
\* failure makes ceil(n / 2000) flushes, each of 2000 records except that
\* the last holds n mod 2000 when that is not zero; its buffer never holds
\* more than 2000 records and is empty after every flush; it returns n and
\* the n records are in the store (no flush and 0 for an empty input).
C5_FlushCounts ==
    (lastMat # << >> /\ ~lastMat[1].raised) =>
        LET m == lastMat[1]
            k == Len(m.flushes)
        IN  /\ k = (m.n + 1999) \div 2000
            /\ \A i \in 1..(k - 1) : m.flushes[i] = 2000
            /\ k > 0 => m.flushes[k] = IF m.n % 2000 # 0 THEN m.n % 2000 ELSE 2000
            /\ m.maxbuf <= 2000
            /\ \A i \in 1..Len(m.after) : m.after[i] = 0
            /\ Len(m.after) = k
            /\ m.left = 0
            /\ m.returned = Some(m.n)
            /\ m.n = 0 => (k = 0 /\ m.returned = Some(0))
            /\ WrittenBy(curated, m.call) = m.n

\* a call over more than two full batches and a rest: three flushes
C5_Witness ==
    /\ lastMat # << >>
    /\ ~lastMat[1].raised
    /\ lastMat[1].n > 2 * BATCH_SIZE
    /\ lastMat[1].n % BATCH_SIZE # 0
    /\ Len(lastMat[1].flushes) = 3
    /\ lastMat[1].returned = Some(lastMat[1].n)

\* C6: when the k-th flush of a materialize_curated call fails, the call
\* raises and returns nothing, it has read no row past that batch, the
\* k - 1 flushes before it stay committed, so that exactly 2000 * (k - 1)
\* records of the call are in the store, and nothing of the failing batch
\* or of a later one is.
C6_FlushFailure ==
    (lastMat # << >> /\ lastMat[1].raised) =>
        LET m == lastMat[1]
            k == m.failAt
        IN  /\ k >= 1
            /\ m.returned = None
            /\ calls[m.call].outcome # "200"
            /\ Len(m.flushes) = k - 1
            /\ \A i \in 1..(k - 1) : m.flushes[i] = 2000
            /\ m.read = Min(2000 * k, m.n)
            /\ WrittenBy(curated, m.call) = 2000 * (k - 1)

\* the second flush of a call failed after the first was committed
C6_Witness ==
    /\ lastMat # << >>
    /\ lastMat[1].raised
    /\ lastMat[1].failAt = 2
    /\ lastMat[1].n > BATCH_SIZE
    /\ WrittenBy(curated, lastMat[1].call) = BATCH_SIZE

\* C7: every curated and staging record an attempt wrote, and every line
\* of a COPY buffer, carries the tenant id the attempt was made for,
\* whatever organization_id column the source rows have.
C7_TenantStamped ==
    /\ \A rec \in DOMAIN curated :
            rec.call > 0 =>
                /\ rec.organization_id \in Tenants
                /\ rec.organization_id = calls[rec.call].org
    /\ \A rec \in DOMAIN staging :
            /\ rec.organization_id \in Tenants
            /\ rec.organization_id = calls[rec.call].org
    /\ lastCopy # << >> =>
            \A rec \in DOMAIN lastCopy[1].buf :
                /\ rec.organization_id \in Tenants
                /\ rec.organization_id = calls[lastCopy[1].call].org

\* rows that name another tenant in their organization_id column were
\* materialized and staged, and a COPY buffer was built
C7_Witness ==
    /\ \E rec \in DOMAIN curated :
            /\ rec.call > 0
            /\ calls[rec.call].row.organization_id # None
            /\ calls[rec.call].row.organization_id # Some(calls[rec.call].org)
    /\ \E rec \in DOMAIN staging :
            /\ rec.raw_json.organization_id # None
            /\ rec.raw_json.organization_id # Some(rec.organization_id)
    /\ lastCopy # << >>

C9_EveryJobFinalized ==
    run.pc = "idle" =>
        \A j \in 1..Len(jobs) :
            /\ jobs[j].status \in Terminal
            /\ jobs[j].finished_at

\* C10: every attempt that went on to persist rows has exactly one JobRun,
\* created before any row was persisted, and once the attempt has ended that
\* JobRun is a success carrying the row count or an error carrying a reason.
C10_EveryAttemptWrapped ==
    \A c \in 1..Len(calls) :
        calls[c].persisting =>
            /\ Cardinality({j \in 1..Len(jobs) : jobs[j].call = c}) = 1
            /\ calls[c].done =>
                \A j \in 1..Len(jobs) :
                    jobs[j].call = c =>
                        /\ jobs[j].status \in Terminal
                        /\ jobs[j].status = "success" =>
                                jobs[j].logs.text \in {"Ingeridos", "CSV importado"}
                        /\ jobs[j].status = "error" => jobs[j].logs.text # ""

C19_UfBounded ==
    \A rec \in DOMAIN curated :
        (rec.call > 0 /\ rec.uf # None) =>
            /\ Len(rec.uf[1]) <= 2
            /\ rec.uf[1] = Upper(rec.uf[1])
            /\ rec.uf[1] = Strip(rec.uf[1])

\* C20: every StagingRecord holds the row as the loader produced it for the
\* ingestion that wrote it, same keys and same values.
C20_StagingVerbatim ==
    \A rec \in DOMAIN staging :
        /\ rec.call \in 1..Len(calls)
        /\ rec.raw_json = calls[rec.call].row

(***************************************************************************)
(* The header resolver: utils/transforms.py, _norm_key and _find.          *)
(* A row is a sequence of columns [key, value] in the order the mapping    *)
(* iterates them; a key and a text value are sequences of characters.      *)
(***************************************************************************)

\* unicodedata.normalize('NFKD', k) followed by dropping the combining
\* marks: an accented letter of the alphabet used here becomes its base
Unaccent(s) ==
    [i \in 1..Len(s) |->
        CASE s[i] \in {"ó", "ô", "õ"} -> "o"
          [] s[i] \in {"Ó"} -> "O"
          [] s[i] \in {"á", "ã", "â"} -> "a"
          [] s[i] \in {"é", "ê"} -> "e"
          [] s[i] \in {"ç"} -> "c"
          [] s[i] \in {"º"} -> "o"
          [] OTHER -> s[i]]

\* for ch in [' ', '/', '.', '-', '\\']: s = s.replace(ch, '_')
Separators == {" ", "/", ".", "-", "\\"}

SeparatorsReplaced(s) ==
    [i \in 1..Len(s) |-> IF s[i] \in Separators THEN "_" ELSE s[i]]

\* while '__' in s: s = s.replace('__', '_')
RECURSIVE Collapsed(_)
Collapsed(s) ==
    IF Contains(s, <<"_", "_">>)
    THEN Collapsed(Replace(s, <<"_", "_">>, <<"_">>))
    ELSE s

_norm_key(k) == Collapsed(SeparatorsReplaced(Lower(Strip(Unaccent(k)))))

F_uf == <<"u", "f">>
F_processo == <<"p", "r", "o", "c", "e", "s", "s", "o">>
F_faixa_vencimento == <<"f", "a", "i", "x", "a", "_", "v", "e", "n", "c", "i", "m", "e", "n", "t", "o">>
F_devedor == <<"d", "e", "v", "e", "d", "o", "r">>
F_cpf_cnpj == <<"c", "p", "f", "_", "c", "n", "p", "j">>
F_credor_code == <<"c", "r", "e", "d", "o", "r", "_", "c", "o", "d", "e">>

KEY_MAP ==
    (F_uf :>
           {<<"u", "f">>,
            <<"e", "s", "t", "a", "d", "o">>,
            <<"s", "t", "a", "t", "e">>})
    @@ (F_processo :>
           {<<"p", "r", "o", "c", "e", "s", "s", "o">>,
            <<"n", "_", "p", "r", "o", "c", "e", "s", "s", "o">>,
            <<"n", "u", "m", "_", "p", "r", "o", "c", "e", "s", "s", "o">>,
            <<"n", "u", "m", "e", "r", "o", "_", "p", "r", "o", "c", "e", "s", "s", "o">>,
            <<"n", "u", "m", "e", "r", "o", "_", "d", "o", "_", "p", "r", "o", "c", "e", "s", "s", "o">>,
            <<"n", "r", "o", "_", "p", "r", "o", "c", "e", "s", "s", "o">>})
    @@ (F_faixa_vencimento :>
           {<<"f", "a", "i", "x", "a", "_", "v", "e", "n", "c", "i", "m", "e", "n", "t", "o">>,
            <<"f", "a", "i", "x", "a", "_", "d", "e", "_", "v", "e", "n", "c", "i", "m", "e", "n", "t", "o">>,
            <<"f", "a", "i", "x", "a">>,
            <<"v", "e", "n", "c", "i", "m", "e", "n", "t", "o", "_", "f", "a", "i", "x", "a">>})
    @@ (F_devedor :>
           {<<"d", "e", "v", "e", "d", "o", "r">>,
            <<"n", "o", "m", "e", "_", "d", "e", "v", "e", "d", "o", "r">>,
            <<"d", "e", "v", "e", "d", "o", "r", "a">>,
            <<"n", "o", "m", "e">>,
            <<"s", "a", "c", "a", "d", "o">>})
    @@ (F_cpf_cnpj :>
           {<<"c", "p", "f", "_", "c", "n", "p", "j">>,
            <<"c", "p", "f">>,
            <<"c", "n", "p", "j">>,
            <<"d", "o", "c", "u", "m", "e", "n", "t", "o">>,
            <<"c", "p", "f", "_", "c", "g", "c">>,
            <<"c", "p", "f", "_", "c", "n", "p", "j", "_">>})
    @@ (F_credor_code :>
           {<<"c", "r", "e", "d", "o", "r", "_", "c", "o", "d", "e">>,
            <<"c", "o", "d", "_", "c", "l", "i", "e", "n", "t", "e">>,
            <<"c", "o", "d", "i", "g", "o", "_", "c", "l", "i", "e", "n", "t", "e">>,
            <<"i", "d", "_", "c", "l", "i", "e", "n", "t", "e">>,
            <<"c", "l", "i", "e", "n", "t", "e", "_", "c", "o", "d", "i", "g", "o">>,
            <<"c", "o", "d", "i", "g", "o", "_", "c", "r", "e", "d", "o", "r">>,
            <<"c", "o", "d", "_", "c", "r", "e", "d", "o", "r">>,
            <<"c", "l", "i", "e", "n", "t", "e", "_", "c", "o", "d">>})
    @@ (<<"d", "t", "_", "v", "e", "n", "c", "i", "m", "e", "n", "t", "o">> :>
           {<<"d", "t", "_", "v", "e", "n", "c", "i", "m", "e", "n", "t", "o">>,
            <<"v", "e", "n", "c", "i", "m", "e", "n", "t", "o">>,
            <<"d", "a", "t", "a", "_", "v", "e", "n", "c", "i", "m", "e", "n", "t", "o">>})
    @@ (<<"v", "l", "_", "t", "i", "t", "u", "l", "o">> :>
           {<<"v", "l", "_", "t", "i", "t", "u", "l", "o">>,
            <<"v", "a", "l", "o", "r">>,
            <<"v", "a", "l", "o", "r", "_", "t", "i", "t", "u", "l", "o">>,
            <<"a", "m", "o", "u", "n", "t">>})
    @@ (<<"s", "i", "t", "u", "a", "c", "a", "o", "_", "p", "r", "o", "c", "e", "s", "s", "o">> :>
           {<<"s", "i", "t", "u", "a", "c", "a", "o", "_", "p", "r", "o", "c", "e", "s", "s", "o">>,
            <<"s", "i", "t", "u", "a", "c", "a", "o">>,
            <<"s", "t", "a", "t", "u", "s">>,
            <<"s", "i", "t", "u", "a", "c", "a", "o", "_", "d", "o", "_", "p", "r", "o", "c", "e", "s", "s", "o">>})
    @@ (<<"v", "l", "_", "t", "o", "t", "a", "l", "_", "r", "e", "p", "a", "s", "s", "e">> :>
           {<<"v", "l", "_", "t", "o", "t", "a", "l", "_", "r", "e", "p", "a", "s", "s", "e">>,
            <<"v", "a", "l", "o", "r", "_", "r", "e", "p", "a", "s", "s", "e">>,
            <<"r", "e", "p", "a", "s", "s", "e">>})
    @@ (<<"v", "l", "_", "s", "a", "l", "d", "o">> :>
           {<<"v", "l", "_", "s", "a", "l", "d", "o">>,
            <<"s", "a", "l", "d", "o">>,
            <<"v", "a", "l", "o", "r", "_", "s", "a", "l", "d", "o">>,
            <<"v", "l", "_", "s", "l", "d">>})
    @@ (<<"d", "t", "_", "u", "l", "t", "i", "m", "o", "_", "c", "r", "e", "d", "i", "t", "o">> :>
           {<<"d", "t", "_", "u", "l", "t", "i", "m", "o", "_", "c", "r", "e", "d", "i", "t", "o">>,
            <<"u", "l", "t", "i", "m", "o", "_", "c", "r", "e", "d", "i", "t", "o">>,
            <<"d", "t", "_", "u", "l", "t", "_", "c", "r", "e", "d", "i", "t", "o">>,
            <<"d", "a", "t", "a", "_", "u", "l", "t", "i", "m", "o", "_", "c", "r", "e", "d", "i", "t", "o">>})
    @@ (<<"p", "o", "r", "t", "a", "d", "o", "r">> :>
           {<<"p", "o", "r", "t", "a", "d", "o", "r">>,
            <<"p", "o", "r", "t", "a", "d", "o", "r", "_", "c", "a", "r", "t", "e", "i", "r", "a">>})
    @@ (<<"m", "o", "t", "i", "v", "o", "_", "d", "e", "v", "o", "l", "u", "c", "a", "o">> :>
           {<<"m", "o", "t", "i", "v", "o", "_", "d", "e", "v", "o", "l", "u", "c", "a", "o">>,
            <<"m", "o", "t", "i", "v", "o", "_", "d", "a", "_", "d", "e", "v", "o", "l", "u", "c", "a", "o">>,
            <<"m", "o", "t", "i", "v", "o", "_", "d", "e", "v", "o", "l">>,
            <<"m", "o", "t", "i", "v", "o", "_", "d", "e", "v">>,
            <<"m", "o", "t", "i", "v", "o", "_", "d", "a", "_", "d", "e", "v", "o", "l", "u", "a", "c", "a", "o">>})
    @@ (<<"v", "l", "_", "h", "o", "n", "o", "r", "a", "r", "i", "o", "_", "d", "e", "v", "e", "d", "o", "r">> :>
           {<<"v", "l", "_", "h", "o", "n", "o", "r", "a", "r", "i", "o", "_", "d", "e", "v", "e", "d", "o", "r">>,
            <<"h", "o", "n", "o", "r", "a", "r", "i", "o", "_", "d", "e", "v", "e", "d", "o", "r">>,
            <<"v", "l", "_", "h", "o", "n", "o", "r", "a", "r", "i", "o">>,
            <<"v", "a", "l", "o", "r", "_", "h", "o", "n", "o", "r", "a", "r", "i", "o", "_", "d", "e", "v", "e", "d", "o", "r">>})
    @@ (<<"v", "l", "_", "t", "x", "_", "c", "o", "n", "t", "r", "a", "t", "o">> :>
           {<<"v", "l", "_", "t", "x", "_", "c", "o", "n", "t", "r", "a", "t", "o">>,
            <<"t", "x", "_", "c", "o", "n", "t", "r", "a", "t", "o">>,
            <<"t", "a", "x", "a", "_", "c", "o", "n", "t", "r", "a", "t", "o">>,
            <<"v", "l", "_", "t", "x">>})
    @@ (<<"c", "o", "m", "e", "r", "c", "i", "a", "l">> :>
           {<<"c", "o", "m", "e", "r", "c", "i", "a", "l">>})
    @@ (<<"c", "o", "b", "r", "a", "d", "o", "r">> :>
           {<<"c", "o", "b", "r", "a", "d", "o", "r">>})
    @@ (<<"d", "t", "_", "e", "n", "c", "e", "r", "r", "a", "d", "o">> :>
           {<<"d", "t", "_", "e", "n", "c", "e", "r", "r", "a", "d", "o">>,
            <<"e", "n", "c", "e", "r", "r", "a", "d", "o">>,
            <<"d", "a", "t", "a", "_", "e", "n", "c", "e", "r", "r", "a", "d", "o">>,
            <<"d", "t", "_", "b", "a", "i", "x", "a">>,
            <<"d", "a", "t", "a", "_", "b", "a", "i", "x", "a">>})
    @@ (<<"d", "i", "a", "s", "_", "v", "e", "n", "c", "i", "d", "o", "s", "_", "c", "a", "d", "a", "s", "t", "r", "o">> :>
           {<<"d", "i", "a", "s", "_", "v", "e", "n", "c", "i", "d", "o", "s", "_", "n", "o", "_", "c", "a", "d", "a", "s", "t", "r", "o">>,
            <<"d", "i", "a", "s", "_", "v", "e", "n", "c", "i", "d", "o", "s", "_", "c", "a", "d", "a", "s", "t", "r", "o">>,
            <<"d", "i", "a", "s", "_", "v", "e", "n", "c", "i", "d", "o", "s">>})
    @@ (<<"d", "t", "_", "c", "a", "d", "a", "s", "t", "r", "o">> :>
           {<<"d", "t", "_", "c", "a", "d", "a", "s", "t", "r", "o">>,
            <<"d", "a", "t", "a", "_", "c", "a", "d", "a", "s", "t", "r", "o">>,
            <<"c", "r", "e", "a", "t", "e", "d", "_", "a", "t">>,
            <<"d", "t", "_", "c", "r", "i", "a", "c", "a", "o">>})

\* KEY_MAP.get(target_key, [])
Candidates(target_key) ==
    IF target_key \in DOMAIN KEY_MAP THEN KEY_MAP[target_key] ELSE {}

\* pass 1 of _find: the normalized key is an alias or the field's own name
AliasMatch(k, target_key) ==
    LET nk == _norm_key(k)
    IN  nk \in Candidates(target_key) \/ nk = target_key

\* pass 2 of _find: the per-field substring tests
Heuristic(k, tk) ==
    LET nk == _norm_key(k)
        In(t) == Contains(nk, t)
    IN  CASE tk = F_cpf_cnpj ->
                In(<<"c", "p", "f">>) \/ In(<<"c", "n", "p", "j">>) \/ In(<<"c", "p", "f", "_", "c", "g", "c">>) \/ In(<<"c", "p", "f", "c", "n", "p", "j">>)
          [] tk = F_devedor ->
                In(<<"d", "e", "v", "e", "d", "o", "r">>) \/ In(<<"d", "e", "v", "e", "d", "o", "r", "a">>) \/ In(<<"s", "a", "c", "a", "d", "o">>) \/ nk = <<"n", "o", "m", "e">>
          [] tk = F_processo ->
                \/ In(<<"p", "r", "o", "c", "e", "s", "s", "o">>)
                \/ nk \in {<<"n", "u", "m", "_", "p", "r", "o", "c", "e", "s", "s", "o">>,
                           <<"n", "_", "p", "r", "o", "c", "e", "s", "s", "o">>,
                           <<"n", "u", "m", "e", "r", "o", "_", "p", "r", "o", "c", "e", "s", "s", "o">>,
                           <<"n", "u", "m", "e", "r", "o", "_", "d", "o", "_", "p", "r", "o", "c", "e", "s", "s", "o">>,
                           <<"n", "r", "o", "_", "p", "r", "o", "c", "e", "s", "s", "o">>}
          [] tk = F_credor_code ->
                \/ In(<<"c", "o", "d">>) /\ In(<<"c", "l", "i", "e", "n", "t", "e">>)
                \/ In(<<"c", "o", "d", "i", "g", "o">>) /\ In(<<"c", "l", "i", "e", "n", "t", "e">>)
                \/ nk \in {<<"c", "r", "e", "d", "o", "r">>, <<"c", "o", "d", "_", "c", "r", "e", "d", "o", "r">>, <<"c", "o", "d", "i", "g", "o", "_", "c", "r", "e", "d", "o", "r">>}
          [] tk = F_faixa_vencimento ->
                In(<<"f", "a", "i", "x", "a">>) /\ In(<<"v", "e", "n", "c">>)
          [] OTHER -> FALSE

\* one "for k, v in row.items(): if ...: return v" loop, from column i on,
\* over the columns whose key passes the loop's test: <<v>> of the first of
\* them, << >> when the loop falls through
RECURSIVE FirstValue(_, _, _)
FirstValue(row, passing, i) ==
    IF i > Len(row) THEN << >>
    ELSE IF i \in passing THEN <<row[i].value>>
    ELSE FirstValue(row, passing, i + 1)

\* a plausible slip: one loop that takes the first column matching either way
FindSinglePass(row, target_key) ==
    LET hit == FirstValue(row,
                          {i \in DOMAIN row :
                              \/ AliasMatch(row[i].key, target_key)
                              \/ Heuristic(row[i].key, target_key)}, 1)
    IN  [value |-> IF hit # << >> THEN hit[1] ELSE None, row |-> row]

\* _find(row, target_key): the value returned and the row as the call left it
_find(row, target_key) ==
    LET pass1 == FirstValue(row,
                            {i \in DOMAIN row : AliasMatch(row[i].key, target_key)},
                            1)
        pass2 == FirstValue(row,
                            {i \in DOMAIN row : Heuristic(row[i].key, target_key)},
                            1)
    IN  [value |-> IF pass1 # << >> THEN pass1[1]
                   ELSE IF pass2 # << >> THEN pass2[1]
                   ELSE None,
         row |-> row]

MaxCols == 3

\* headers as spreadsheets carry them, each with a value of its own; the
\* last one holds no value
Column(key, value) == [key |-> key, value |-> value]

FindColumns ==
    {Column(<<"U", "F">>, Some(<<"S", "P">>)),
     Column(<<"E", "s", "t", "a", "d", "o">>, Some(<<"R", "J">>)),
     Column(<<"C", "ó", "d", ".", " ", "C", "l", "i", "e", "n", "t", "e">>, Some(<<"c", "7">>)),
     Column(<<"C", "l", "i", "e", "n", "t", "e", " ", "/", "C", "o", "d", "i", "g", "o", " ", "X">>, Some(<<"c", "8">>)),
     Column(<<"C", "P", "F", " ", "d", "o", " ", "S", "a", "c", "a", "d", "o">>, Some(<<"1", "1">>)),
     Column(<<"c", "p", "f">>, Some(<<"2", "2">>)),
     Column(<<"F", "a", "i", "x", "a", " ", "-", " ", "V", "e", "n", "c">>, Some(<<"f", "1">>)),
     Column(<<"N", "º", " ", "P", "r", "o", "c", "e", "s", "s", "o">>, Some(<<"p", "1">>)),
     Column(<<"s", "t", "a", "t", "e">>, None)}

FindRows ==
    {r \in UNION {[1..n -> FindColumns] : n \in 0..MaxCols} :
        \A i, j \in DOMAIN r : r[i].key = r[j].key => i = j}

FindFields ==
    {F_uf, F_cpf_cnpj, F_devedor, F_processo, F_credor_code,
     F_faixa_vencimento, <<"p", "l", "a", "n", "i", "l", "h", "a">>}

FindInputs == {[fn |-> "_find", row |-> r, field |-> f] : r \in FindRows, f \in FindFields}

\* one call of _find
Find ==
    /\ argv # << >>
    /\ argv[1].fn = "_find"
    /\ retv = << >>
    /\ retv' = <<_find(argv[1].row, argv[1].field)>>
    /\ UNCHANGED <<argv, sessions, screenVars, expandVars, queryVars, curated, ingestVars>>

FindNext == Find

\* the columns of the call's row that pass 1, and pass 2, would accept
AliasColumns ==
    {i \in DOMAIN argv[1].row : AliasMatch(argv[1].row[i].key, argv[1].field)}

HeuristicColumns ==
    {i \in DOMAIN argv[1].row : Heuristic(argv[1].row[i].key, argv[1].field)}

Least(S) == CHOOSE i \in S : \A j \in S : i <= j

FindReturned == argv # << >> /\ argv[1].fn = "_find" /\ retv # << >>

\* C16: _find returns the value of the first column, in iteration order,
\* whose normalized key is an alias or the canonical name of the field,
\* wherever in the row that column stands; only when no column matches so,
\* the value of the first column that satisfies the field's heuristic;
\* otherwise null.  It always returns and leaves the row as it was.
C16_FindTwoPass ==
    FindReturned =>
        /\ retv[1].value =
              IF AliasColumns # {}
              THEN argv[1].row[Least(AliasColumns)].value
              ELSE IF HeuristicColumns # {}
              THEN argv[1].row[Least(HeuristicColumns)].value
              ELSE None
        /\ retv[1].row = argv[1].row

\* C16: an alias in a later column was preferred to a heuristic match in an
\* earlier one
C16_Witness ==
    /\ FindReturned
    /\ \E i, j \in DOMAIN argv[1].row :
          /\ i < j
          /\ i \in HeuristicColumns \ AliasColumns
          /\ j \in AliasColumns
          /\ \A k \in AliasColumns : j <= k
          /\ argv[1].row[i].value # argv[1].row[j].value
          /\ retv[1].value = argv[1].row[j].value



(***************************************************************************)
(* The float converters: utils/transforms.py, _to_float, and               *)
(* routers/ingest.py, _normalize_numbers.                                  *)
(* A float is a record: finite values are neg, m, e for (-1)^neg * m *     *)
(* 10^e with m not divisible by 10 (0 is m = 0, e = 0); the others are     *)
(* the infinities and nan.  A cell is null, a text or a native float.      *)
(***************************************************************************)
FNaN == [kind |-> "nan"]

FInf(neg) == [kind |-> "inf", neg |-> neg]

RECURSIVE Normal(_, _)
Normal(m, e) ==
    IF m = 0 THEN <<0, 0>>
    ELSE IF m % 10 = 0 THEN Normal(m \div 10, e + 1)
    ELSE <<m, e>>

RECURSIVE NumDigits(_)
NumDigits(m) == IF m < 10 THEN 1 ELSE 1 + NumDigits(m \div 10)

\* decimal exponent above which a double overflows to infinity
DBL_MAX_10_EXP == 308

\* the double nearest to m * 10^e: magnitudes from 1e309 on are infinite
\* (no value between the largest double and 1e309 is drawn here)
Finite(neg, m, e) ==
    LET n == Normal(m, e)
    IN  IF m # 0 /\ NumDigits(n[1]) + n[2] > DBL_MAX_10_EXP + 1
        THEN FInf(neg)
        ELSE [kind |-> "finite", neg |-> neg, m |-> n[1], e |-> n[2]]

NoneCell == [t |-> "none"]

StrCell(s) == [t |-> "str", s |-> s]

FloatCell(f) == [t |-> "float", f |-> f]

DigitChars == <<"0", "1", "2", "3", "4", "5", "6", "7", "8", "9">>

DigitVal(c) == (CHOOSE i \in 1..10 : DigitChars[i] = c) - 1

IsDigits(s) == \A i \in DOMAIN s : \E d \in DOMAIN DigitChars : s[i] = DigitChars[d]

RECURSIVE ToNat(_)
ToNat(s) ==
    IF s = << >> THEN 0
    ELSE ToNat(SubSeq(s, 1, Len(s) - 1)) * 10 + DigitVal(s[Len(s)])

RECURSIVE NatStr(_)
NatStr(n) ==
    IF n < 10 THEN <<DigitChars[n + 1]>>
    ELSE NatStr(n \div 10) \o <<DigitChars[(n % 10) + 1]>>

\* first position of character c in s, 0 when it is not there
IndexOf(s, c) ==
    IF \E i \in DOMAIN s : s[i] = c
    THEN CHOOSE i \in DOMAIN s : s[i] = c /\ \A j \in 1..(i - 1) : s[j] # c
    ELSE 0

Zeros(n) == [i \in 1..n |-> "0"]

\* float's decimal grammar: digits [. digits] [e [+-] digits], at least one
\* digit in the mantissa; <<value>>, or << >> for ValueError
ParseDecimal(neg, body) ==
    LET ePos == IndexOf(body, "e")
        mant == IF ePos = 0 THEN body ELSE SubSeq(body, 1, ePos - 1)
        expo == IF ePos = 0 THEN << >> ELSE SubSeq(body, ePos + 1, Len(body))
        expNeg == expo # << >> /\ expo[1] = "-"
        expDigits == IF expo # << >> /\ expo[1] \in {"+", "-"} THEN Tail(expo) ELSE expo
        dot == IndexOf(mant, ".")
        ip == IF dot = 0 THEN mant ELSE SubSeq(mant, 1, dot - 1)
        fp == IF dot = 0 THEN << >> ELSE SubSeq(mant, dot + 1, Len(mant))
        valid ==
            /\ IsDigits(ip) /\ IsDigits(fp) /\ Len(ip) + Len(fp) > 0
            /\ ePos # 0 => (expDigits # << >> /\ IsDigits(expDigits))
        ex == IF ePos = 0 THEN 0
              ELSE IF expNeg THEN 0 - ToNat(expDigits) ELSE ToNat(expDigits)
    IN  IF valid THEN <<Finite(neg, ToNat(ip \o fp), ex - Len(fp))>> ELSE << >>


\* if s.lower() in ("nan", "nat", "none", "null")
Sentinels == {<<"n", "a", "n">>, <<"n", "a", "t">>,
              <<"n", "o", "n", "e">>, <<"n", "u", "l", "l">>}

\* Python's float(s) of a text: surrounding whitespace and a sign are
\* accepted, then inf, infinity or nan in any letter case, or a decimal
PyFloat(s) ==
    LET t == Strip(s)
        signed == t # << >> /\ t[1] \in {"+", "-"}
        neg == t # << >> /\ t[1] = "-"
        body == Lower(IF signed THEN Tail(t) ELSE t)
    IN  IF body \in {<<"i", "n", "f">>, <<"i", "n", "f", "i", "n", "i", "t", "y">>} THEN <<FInf(neg)>>
        ELSE IF body = <<"n", "a", "n">> THEN <<FNaN>>
        ELSE ParseDecimal(neg, body)

\* repr of a float, which str(v) and astype(str) produce: positional
\* between 1e-4 and 1e16, scientific outside
FloatStr(f) ==
    IF f.kind = "nan" THEN <<"n", "a", "n">>
    ELSE IF f.kind = "inf" THEN (IF f.neg THEN <<"-">> ELSE << >>) \o <<"i", "n", "f">>
    ELSE LET digs == NatStr(f.m)
             n == Len(digs)
             point == n + f.e
             sign == IF f.neg THEN <<"-">> ELSE << >>
             ex == point - 1
             exAbs == IF ex < 0 THEN 0 - ex ELSE ex
             exTxt == IF exAbs < 10 THEN <<"0">> \o NatStr(exAbs) ELSE NatStr(exAbs)
         IN  sign \o
             (IF f.m = 0 THEN <<"0", ".", "0">>
              ELSE IF ex < 0 - 4 \/ ex >= 16
              THEN <<digs[1]>> \o (IF n > 1 THEN <<".">> \o Tail(digs) ELSE << >>)
                   \o <<"e", IF ex < 0 THEN "-" ELSE "+">> \o exTxt
              ELSE IF point <= 0 THEN <<"0", ".">> \o Zeros(0 - point) \o digs
              ELSE IF point < n
              THEN SubSeq(digs, 1, point) \o <<".">> \o SubSeq(digs, point + 1, n)
              ELSE digs \o Zeros(point - n) \o <<".", "0">>)

\* str(v)
PyStr(v) ==
    CASE v.t = "none" -> <<"N", "o", "n", "e">>
      [] v.t = "str" -> v.s
      [] v.t = "float" -> FloatStr(v.f)

\* the branch of _to_float's conversion: one comma and at least one dot
OneCommaAndDot(s) == Contains(s, <<",">>) /\ Count(s, <<",">>) = 1 /\ Contains(s, <<".">>)

\* the text handed to float()
DecimalText(s) ==
    IF OneCommaAndDot(s)
    THEN Replace(Replace(s, <<".">>, << >>), <<",">>, <<".">>)
    ELSE Replace(s, <<",">>, <<".">>)

\* _to_float(v); numpy is importable wherever pandas is, so the first
\* test is made
_to_float(v) ==
    LET s == Strip(PyStr(v))
        r == PyFloat(DecimalText(s))
    IN  IF v.t = "none" \/ v = StrCell(<< >>) THEN None
        ELSE IF v.t = "float" /\ v.f.kind # "finite" THEN None
        ELSE IF Lower(s) \in Sentinels THEN None
        ELSE IF r = << >> THEN None
        ELSE Some(r[1])

\* pd.to_numeric(errors="coerce") of one text: what does not parse is NaN
ToNumeric(s) == IF PyFloat(s) = << >> THEN FNaN ELSE PyFloat(s)[1]

\* _normalize_numbers on one cell of a NUM_COLS column
_normalize_numbers(v) ==
    FloatCell(ToNumeric(Replace(Replace(PyStr(v), <<".">>, << >>), <<",">>, <<".">>)))

FloatBodies ==
    {<<"i", "n", "f">>,
     <<"I", "n", "f", "i", "n", "i", "t", "y">>,
     <<"n", "a", "n">>,
     <<"N", "a", "N">>,
     <<"N", "a", "T">>,
     <<"n", "o", "n", "e">>,
     <<"N", "U", "L", "L">>,
     <<"1", "e", "9", "9", "9">>,
     <<"1", ".", "2", "3", "4", ",", "5", "6">>,
     <<"1", "2", "3", "4", ".", "5", "6">>,
     <<"1", "2", "3", "4", ",", "5", "6">>,
     <<"1", ".", "2", "3", "4", ".", "5", "6", "7", ",", "8", "9">>,
     <<"1", "2">>,
     <<"a", "b", "c">>,
     <<>>,
     <<"1", ",", "5">>,
     <<"0", ".", "5">>,
     <<"1", "e", "3">>,
     <<".">>,
     <<"1", ",", "2", ",", "3">>}

FloatCells ==
    {StrCell(sg \o b \o p) : sg \in {<< >>, <<"-">>, <<"+">>}, b \in FloatBodies,
                              p \in {<< >>, <<" ">>}}
    \cup {NoneCell, FloatCell(FNaN), FloatCell(FInf(FALSE)), FloatCell(FInf(TRUE)),
          FloatCell(Finite(FALSE, 123456, 0 - 2)), FloatCell(Finite(FALSE, 0, 0)),
          FloatCell(Finite(TRUE, 5, 0 - 7)), FloatCell(Finite(FALSE, 1, 20))}

FloatInputs ==
    {[fn |-> f, v |-> c] : f \in {"_to_float", "_normalize_numbers", "_to_int"},
                           c \in FloatCells}

\* the recurring ingest: materialize_curated hands the loader's cell to
\* _to_float
ToFloat ==
    /\ argv # << >>
    /\ argv[1].fn = "_to_float"
    /\ retv = << >>
    /\ retv' = <<[cell |-> argv[1].v, value |-> _to_float(argv[1].v)]>>
    /\ UNCHANGED <<argv, sessions, screenVars, expandVars, queryVars, curated, ingestVars>>

\* the interactive endpoints: _map_headers_and_normalize rewrites the cell
\* with _normalize_numbers, then materialize_curated hands it to _to_float
NormalizeNumbers ==
    /\ argv # << >>
    /\ argv[1].fn = "_normalize_numbers"
    /\ retv = << >>
    /\ LET cell == _normalize_numbers(argv[1].v)
       IN  retv' = <<[cell |-> cell, value |-> _to_float(cell)]>>
    /\ UNCHANGED <<argv, sessions, screenVars, expandVars, queryVars, curated, ingestVars>>

RECURSIVE Pow10(_)
Pow10(n) == IF n = 0 THEN 1 ELSE 10 * Pow10(n - 1)

\* int(f) of a float: the integer part, toward zero, kept in the float's own
\* form since it may exceed the machine word here; << >> when int() raises
\* (OverflowError for an infinity, ValueError for nan)
PyInt(f) ==
    IF f.kind # "finite" THEN << >>
    ELSE IF f.e >= 0 THEN <<Finite(f.neg /\ f.m # 0, f.m, f.e)>>
    ELSE IF 0 - f.e >= NumDigits(f.m) THEN <<Finite(FALSE, 0, 0)>>
    ELSE LET q == f.m \div Pow10(0 - f.e)
         IN  <<Finite(f.neg /\ q # 0, q, 0)>>

\* _to_int(v)
_to_int(v) ==
    LET s == Strip(PyStr(v))
        s2 == Replace(Replace(s, <<".">>, << >>), <<",">>, <<".">>)
        r == PyFloat(s2)
    IN  IF v.t = "none" \/ v = StrCell(<< >>) THEN None
        ELSE IF v.t = "float" /\ v.f.kind # "finite" THEN None
        ELSE IF Lower(s) \in Sentinels THEN None
        ELSE IF r = << >> \/ PyInt(r[1]) = << >> THEN None
        ELSE Some(PyInt(r[1])[1])

\* materialize_curated hands the cell of dias_vencidos_cadastro to _to_int
ToInt ==
    /\ argv # << >>
    /\ argv[1].fn = "_to_int"
    /\ retv = << >>
    /\ retv' = <<[cell |-> argv[1].v, value |-> _to_int(argv[1].v)]>>
    /\ UNCHANGED <<argv, sessions, screenVars, expandVars, queryVars, curated, ingestVars>>

FloatNext == ToFloat \/ NormalizeNumbers \/ ToInt

FloatReturned == argv # << >> /\ argv[1].fn \in {"_to_float", "_normalize_numbers"} /\ retv # << >>

\* what the stated rule makes of a text: << >> when it gives no number
RuleValue(s) == PyFloat(DecimalText(Strip(s)))

\* C17: on both paths a decimal text ends in the curated record as the value
\* the rule gives it: dots are thousands separators only when the text has
\* exactly one comma and a dot, otherwise only the comma is replaced; so
\* "1.234,56" and "1234.56" both end as 1234.56.
C17_DecimalRule ==
    (/\ FloatReturned
     /\ argv[1].v.t = "str"
     /\ RuleValue(argv[1].v.s) # << >>
     /\ RuleValue(argv[1].v.s)[1].kind = "finite") =>
        retv[1].value = Some(RuleValue(argv[1].v.s)[1])

\* C18: _to_float returns null or a finite number.
C18_ToFloatFinite ==
    (FloatReturned /\ argv[1].fn = "_to_float") =>
        \/ retv[1].value = None
        \/ retv[1].value[1].kind = "finite"

\* C29: in _run_recurring_ingest each data source has its own JobRun; a
\* source that fails leaves its own JobRun finished as error, changes no
\* other JobRun, and the sources after it in the list are still processed.
C29_SourceIsolation ==
    [][(run.pc = "cron" /\ run.job # 0) =>
            /\ jobs'[run.job].status \in Terminal
            /\ jobs'[run.job].finished_at
            /\ \A j \in DOMAIN jobs \ {run.job} : jobs'[j] = jobs[j]
            /\ Tail(run.queue) # << >> =>
                    (run'.pc = "cron" /\ run'.queue = Tail(run.queue))]_vars

\* C22: in every committed state of a JobRun, finished_at is set if and only
\* if the status is success or error.
C22_FinishedIffTerminal ==
    \A j \in 1..Len(jobs) :
        \A i \in 1..Len(jobs[j].commits) :
            jobs[j].commits[i].finished_at <=> jobs[j].commits[i].status \in Terminal

(***************************************************************************)
(* Two materialize_curated calls side by side, each with its own session.  *)
(* A step of a call reads rows up to its next flush and commits the batch; *)
(* the commit is the only step that touches the shared store.              *)
(***************************************************************************)
\* a plausible slip: a commit writes into the store as the session first saw it
SessionStoreSnapshot(snapshot, current) == snapshot

\* the store a session's commit adds to: the table as it is at the commit
SessionStore(snapshot, current) == current

ConcSizes == {0, 1, BATCH_SIZE, BATCH_SIZE + 1, MaxRows}

\* the locals of one call; at lists the size of the store met by each commit
ConcCall(p, n, raw, organization_id, snapshot) ==
    [pc |-> "loop", n |-> n, raw |-> raw, organization_id |-> organization_id,
     call |-> p, snapshot |-> snapshot, st |-> MatStart(n, EmptyBag),
     at |-> << >>, returned |-> None]

ConcStarts ==
    {<<ConcCall(1, a.n, a.raw, a.org, EmptyBag),
       ConcCall(2, b.n, b.raw, b.org, EmptyBag)>> :
        a, b \in {[n |-> n, raw |-> r, org |-> o] :
                    n \in ConcSizes, r \in {RowA, RowB}, o \in Tenants}}

\* the rows up to the next flush are read, then db.add_all(batch);
\* db.commit(); batch.clear()
ConcFlush ==
    \E p \in DOMAIN sessions :
        LET s == sessions[p]
            take == Min(s.st.remaining, BATCH_SIZE - s.st.batch)
            rd == [s.st EXCEPT !.remaining = @ - take,
                               !.batch = @ + take,
                               !.count = @ + take,
                               !.maxbuf = Max(@, s.st.batch + take),
                               !.store = SessionStore(s.snapshot, curated)]
            fl == Flush(rd, CuratedRecordOf(s.raw, s.organization_id, None, s.call),
                        TRUE)
        IN  /\ s.pc = "loop"
            /\ s.st.remaining > 0
            /\ FlushDue(rd.batch) \/ (rd.remaining = 0 /\ FinalFlushDue(rd.batch))
            /\ curated' = fl.store
            /\ sessions' = [sessions EXCEPT
                                ![p].st = [fl EXCEPT !.store = EmptyBag],
                                ![p].snapshot = fl.store,
                                ![p].at = Append(@, BagCardinality(curated))]
            /\ UNCHANGED <<argv, retv, screenVars, expandVars, queryVars, ingestVars>>

\* return count
ConcReturn ==
    \E p \in DOMAIN sessions :
        /\ sessions[p].pc = "loop"
        /\ sessions[p].st.remaining = 0
        /\ ~FinalFlushDue(sessions[p].st.batch)
        /\ sessions' = [sessions EXCEPT ![p].pc = "done",
                                        ![p].returned = Some(sessions[p].st.count)]
        /\ UNCHANGED <<argv, retv, curated, screenVars, expandVars, queryVars,
                       ingestVars>>

ConcNext == ConcFlush \/ ConcReturn

\* C25: whatever the order of the flushes of two calls, the rows a call has
\* committed so far are in the store once each with that call's tenant, and
\* when both have returned each has returned its own row count and the store
\* is the multiset union of the two inputs.
C25_ConcurrentUnion ==
    sessions # << >> =>
        /\ \A p \in DOMAIN sessions :
                LET s == sessions[p]
                IN  /\ WrittenBy(curated, p) = s.st.count - s.st.batch
                    /\ \A rec \in DOMAIN curated :
                            rec.call = p => rec.organization_id = s.organization_id
                    /\ s.pc = "done" => s.returned = Some(s.n)
        /\ (\A p \in DOMAIN sessions : sessions[p].pc = "done") =>
                curated =
                    Added(Added(EmptyBag,
                                CuratedRecordOf(sessions[1].raw,
                                                sessions[1].organization_id,
                                                None, 1), sessions[1].n),
                          CuratedRecordOf(sessions[2].raw,
                                          sessions[2].organization_id, None, 2),
                          sessions[2].n)

\* two calls of one tenant have returned and a flush of one fell between
\* two flushes of the other
C25_Witness ==
    /\ sessions # << >>
    /\ \A p \in DOMAIN sessions : sessions[p].pc = "done"
    /\ sessions[1].organization_id = sessions[2].organization_id
    /\ \E p, q \in DOMAIN sessions :
            /\ Len(sessions[p].at) >= 2
            /\ Len(sessions[q].at) >= 1
            /\ sessions[p].at[1] < sessions[q].at[1]
            /\ sessions[q].at[1] < sessions[p].at[2]

(***************************************************************************)
(* routers/indicators_v2.py: create_indicator and bootstrap_indicators as  *)
(* requests in flight.  Each request has its own session; between its      *)
(* SELECT and its INSERT or UPDATE other requests may commit.              *)
(***************************************************************************)
MaxSessions == 2

\* the keys of the templates of bootstrap_indicators, in order
BootstrapKeys ==
    <<"valor_mes_a_mes", "mapa_por_uf", "total_por_faixa_vencimento",
      "recuperado_por_faixa_vencimento">>

\* the keys a create_indicator request may carry
UpsertKeys == IndicatorKeys \cup {"mapa_por_uf"}

\* SELECT id FROM indicators WHERE organization_id=:o AND key=:k : the ids
\* of the matching rows; .first() takes one of them
SelectExisting(org, key, table) ==
    {r.id : r \in {x \in table : x.organization_id = org /\ x.key = key}}

\* the UPDATE ... WHERE id=:id or the INSERT, and its commit
WriteIndicator(org, key, sql, existing, table) ==
    IF existing # None
    THEN {IF r.id = existing[1] THEN [r EXCEPT !.formula_sql = sql] ELSE r :
            r \in table}
    ELSE table \cup {[id |-> Cardinality(table) + 1, organization_id |-> org,
                      key |-> key, formula_sql |-> sql, credor_code |-> None]}

\* a request arrives: one create_indicator with a safe text, or a bootstrap
UpsertStart ==
    \E org \in Tenants, keys \in {<<k>> : k \in UpsertKeys} \cup {BootstrapKeys},
       text \in {Q_own, Q_all} :
        /\ Len(sessions) < MaxSessions
        /\ is_safe_select(Strip(Lstrip(text, {BOM})))
        /\ sessions' = Append(sessions,
                [org |-> org, keys |-> keys,
                 sql |-> Strip(Lstrip(text, {BOM})), pc |-> "select",
                 existing |-> None, wrote |-> {}])
        /\ UNCHANGED <<indicators, datasets, lastReq, curated, ingestVars, argv,
                       retv, screenVars, expandVars>>

\* existing = db.execute(SELECT id ...).first()
UpsertSelect ==
    \E p \in DOMAIN sessions :
        LET c == sessions[p]
            ids == SelectExisting(c.org, Head(c.keys), indicators)
        IN  /\ c.pc = "select"
            /\ \E e \in (IF ids = {} THEN {None} ELSE {Some(i) : i \in ids}) :
                    sessions' = [sessions EXCEPT ![p].existing = e,
                                                 ![p].pc = "write"]
            /\ UNCHANGED <<indicators, datasets, lastReq, curated, ingestVars,
                           argv, retv, screenVars, expandVars>>

\* the branch on existing, up to its db.commit(); a bootstrap goes on to its
\* next template
UpsertWrite ==
    \E p \in DOMAIN sessions :
        LET c == sessions[p]
            t == WriteIndicator(c.org, Head(c.keys), c.sql, c.existing, indicators)
        IN  /\ c.pc = "write"
            /\ indicators' = t
            /\ sessions' = [sessions EXCEPT
                    ![p].keys = Tail(@),
                    ![p].existing = None,
                    ![p].wrote = @ \cup {r.id : r \in t \ indicators},
                    ![p].pc = IF Tail(c.keys) = << >> THEN "done" ELSE "select"]
            /\ UNCHANGED <<datasets, lastReq, curated, ingestVars, argv, retv,
                           screenVars, expandVars>>

UpsertNext ==
    \/ UpsertStart
    \/ UpsertSelect
    \/ UpsertWrite

\* C30: whatever the interleaving of create_indicator and
\* bootstrap_indicators requests, the store holds at most one indicator per
\* (organization_id, key).
C30_UpsertUnique ==
    \A r1 \in indicators, r2 \in indicators :
        (r1.organization_id = r2.organization_id /\ r1.key = r2.key) => r1 = r2

(***************************************************************************)
(* routers/ingest.py: job_status                                           *)
(***************************************************************************)
\* GET /ingest/jobs/{job_id}: the handler has the id and the session, and no
\* caller; it answers from the row with that id
job_status(job_id, table) ==
    IF job_id \in DOMAIN table
    THEN [status |-> "200",
          row |-> <<[id |-> job_id, status |-> table[job_id].status,
                     logs |-> table[job_id].logs,
                     finished_at |-> table[job_id].finished_at]>>]
    ELSE [status |-> "404", row |-> << >>]

\* who may send the request: a caller of a tenant, or one with no token
Callers == {None} \cup {Some(o) : o \in Tenants}

JobStatus ==
    \E caller \in Callers, job_id \in 1..MaxCalls :
        /\ lastReq' = [endpoint |-> "job_status", caller |-> caller,
                       job_id |-> job_id, response |-> job_status(job_id, jobs)]
        /\ UNCHANGED <<indicators, datasets, curated, ingestVars, pureVars,
                       screenVars, expandVars>>

JobsNext ==
    \/ IngestCsvAsync
    \/ WorkerCsvCopy
    \/ WorkerFinally
    \/ JobStatus

\* C28: job_status hands the data of a JobRun only to a caller authenticated
\* for the tenant that owns the JobRun; a caller of another tenant and a
\* caller without authentication get no job data.
C28_JobStatusScoped ==
    (lastReq.endpoint = "job_status" /\ lastReq.response.row # << >>) =>
        lastReq.caller = Some(jobs[lastReq.job_id].organization_id)

(***************************************************************************)
(* routers/meta.py: clear_tenant_data                                      *)
(***************************************************************************)
\* a plausible slip: the DELETE has no WHERE clause
DeleteMatchingAll(store, o) == DOMAIN store

\* the rows DELETE FROM curated_records WHERE organization_id=:o matches
DeleteMatching(store, o) == {r \in DOMAIN store : r.organization_id = o}

\* fail names the call that raises: "execute", "commit" or "none"; a raise
\* is followed by db.rollback(), which undoes the DELETE
clear_tenant_data(store, org, fail) ==
    LET gone == DeleteMatching(store, org)
        deleted == BagCardinality([r \in gone |-> store[r]])
    IN  IF fail = "none"
        THEN [curated |-> [r \in DOMAIN store \ gone |-> store[r]],
              response |-> [ok |-> TRUE, deleted |-> deleted]]
        ELSE [curated |-> store, response |-> [ok |-> FALSE, deleted |-> 0]]

MaxCopies == 2

ClearRows ==
    {CuratedRow(o, None, Some(u), 0) : o \in Tenants, u \in {<<"S", "P">>, <<"R", "J">>}}

\* the curated stores a clear may find
ClearStores ==
    {[r \in {x \in ClearRows : c[x] > 0} |-> c[r]] : c \in [ClearRows -> 0..MaxCopies]}

\* the tables a clear must leave alone, none of them empty
ClearStart ==
    /\ staging = SetToBag({StagingRecordOf(RowA, 1, 0), StagingRecordOf(RowB, 2, 0)})
    /\ jobs = <<QueuedJobRun(1, 0), RunningJobRun(2, 0)>>
    /\ indicators = {[id |-> o, organization_id |-> o, key |-> "k",
                      formula_sql |-> Q_own, credor_code |-> None] : o \in Tenants}
    /\ datasets = {[id |-> o, organization_id |-> o, query_sql |-> Q_own] :
                        o \in Tenants}
    /\ curated \in ClearStores

\* POST /meta/clear-tenant by a caller of tenant org; before keeps the tables
\* as the request found them
ClearTenant ==
    \E org \in Tenants, fail \in {"none", "execute", "commit"} :
        LET r == clear_tenant_data(curated, org, fail)
        IN  /\ curated' = r.curated
            /\ lastReq' = [endpoint |-> "clear_tenant_data", org |-> org,
                           fail |-> fail, response |-> r.response,
                           before |-> [curated |-> curated, staging |-> staging,
                                       jobs |-> jobs, indicators |-> indicators,
                                       datasets |-> datasets]]
            /\ UNCHANGED <<indicators, datasets, ingestVars, pureVars, screenVars,
                           expandVars>>

ClearNext == ClearTenant

\* C27: a clear for tenant A removes every curated record of A that was
\* there and no other curated record, and leaves staging records, job runs,
\* indicators and datasets as they were; a clear that fails removes nothing.
C27_ClearFrame ==
    lastReq.endpoint = "clear_tenant_data" =>
        LET b == lastReq.before
            A == lastReq.org
        IN  /\ staging = b.staging
            /\ jobs = b.jobs
            /\ indicators = b.indicators
            /\ datasets = b.datasets
            /\ lastReq.fail = "none" =>
                    /\ lastReq.response.ok
                    /\ \A r \in DOMAIN curated : r.organization_id # A
                    /\ \A r \in DOMAIN b.curated :
                            r.organization_id # A =>
                                (r \in DOMAIN curated /\ curated[r] = b.curated[r])
                    /\ DOMAIN curated \subseteq DOMAIN b.curated
                    /\ lastReq.response.deleted
                            = BagCardinality(b.curated) - BagCardinality(curated)
            /\ lastReq.fail # "none" =>
                    /\ ~lastReq.response.ok
                    /\ curated = b.curated

\* a clear removed three records of its tenant and left two of the other
C27_Witness ==
    /\ lastReq.endpoint = "clear_tenant_data"
    /\ lastReq.response.ok
    /\ lastReq.response.deleted = 3
    /\ BagCardinality(curated) = 2
    /\ \E r \in DOMAIN curated : r.organization_id # lastReq.org

\* the map with every value but date_field's replaced by another one
Revalued(f) ==
    [k \in DOMAIN f |->
        IF k = "date_field" \/ f[k] = None THEN f[k]
        ELSE IF k = "tenant_id" THEN Some(8) ELSE Some("other")]

\* C26: when the map carries tenant_id, every bind placeholder the expansion
\* inserts (for tenant_id, from, to and each filter) is named by a key of the
\* returned params that holds the caller's value, the expansion inserts no
\* other bind placeholder, the expanded text does not depend on the value of
\* any filter but date_field, and it holds a semicolon only if the input
\* text did.
C26_BindingComplete ==
    (exOut # << >> /\ "tenant_id" \in DOMAIN exFilters) =>
        LET out == exOut[1]
            given(n) == Get(exFilters, n) # None
            Bind(n) == <<":">> \o KeyText[n]
            inserted(n) ==
                IF n = "tenant_id" THEN Count(exText, PH_tenant)
                ELSE IF ~given(n) THEN 0
                ELSE IF n = "from" THEN Count(exText, PH_from)
                ELSE IF n = "to" THEN Count(exText, PH_to)
                ELSE Count(exText, FilterPlaceholder(n))
            \* the {{filter:n}} tokens the loop takes out of the text
            expanded(n) ==
                IF n \in DOMAIN exFilters
                THEN Count(exText, FilterPlaceholder(n)) ELSE 0
        IN  /\ \A n \in FilterNames \cup {"tenant_id", "from", "to"} :
                    /\ Count(out.text, Bind(n)) >= inserted(n)
                    /\ inserted(n) > 0 =>
                            /\ n \in DOMAIN out.params
                            /\ out.params[n] = exFilters[n][1]
            /\ Count(out.text, <<":">>) + expanded("uf")
                    + expanded("situacao_processo") + expanded("credor_code") =
                    Count(exText, <<":">>) + inserted("tenant_id")
                    + inserted("from") + inserted("to") + inserted("uf")
                    + inserted("situacao_processo") + inserted("credor_code")
            /\ apply_placeholders(exText, Revalued(exFilters)).text = out.text
            /\ ~Contains(exText, T_semicolon) => ~Contains(out.text, T_semicolon)

\* a text with {{tenant_id}}, {{filter:uf}} and {{date_field}} expanded under
\* a uf value and a date_field holding a semicolon
C26_Witness ==
    /\ exOut # << >>
    /\ "tenant_id" \in DOMAIN exFilters
    /\ Contains(exText, PH_tenant)
    /\ Contains(exText, FilterPlaceholder("uf"))
    /\ Contains(exText, PH_date_field)
    /\ Get(exFilters, "uf") # None
    /\ Get(exFilters, "date_field") # None
    /\ Contains(exFilters["date_field"][1], T_semicolon)
    /\ {"tenant_id", "uf"} \subseteq DOMAIN exOut[1].params
    /\ ~Contains(exOut[1].text, T_semicolon)

\* C23: the records the bulk path hands to its load are the records the
\* interactive path builds from the same row, tenant and creditor code, they
\* are persisted, and the load names only columns of the curated table.
C23_BulkAsInteractive ==
    lastCopy # << >> =>
        LET c == lastCopy[1]
            row == _map_headers_and_normalize(calls[c.call].row,
                                              c.organization_id, None)
        IN  /\ CopyColumns \subseteq CuratedTableColumns
            /\ \A rec \in DOMAIN c.buf :
                    /\ rec = CuratedRecordOf(row, c.organization_id, None, c.call)
                    /\ rec \in DOMAIN curated

\* C24: the worker makes ceil(N / 20000) bulk loads of at most 20000 rows,
\* all but the last of exactly 20000; with no failure every row is loaded
\* once and the job is a success reporting N; when a load fails the rows of
\* the earlier loads stay and the job is marked error.
C24_WorkerBatching ==
    (lastCopy # << >> /\ run.pc = "worker_finally") =>
        LET c == lastCopy[1]
            k == Len(c.batches)
            job == jobs[run.job]
        IN  /\ k <= (run.n + BATCH - 1) \div BATCH
            /\ \A i \in 1..k : c.batches[i] <= BATCH
            /\ \A i \in 1..(k - 1) : c.batches[i] = BATCH
            /\ job.status \in {"success", "error"}
            /\ job.status = "success" =>
                    /\ k = (run.n + BATCH - 1) \div BATCH
                    /\ job.logs.n = run.n
                    /\ WrittenBy(curated, c.call) = run.n
            /\ job.status = "error" =>
                    WrittenBy(curated, c.call) = BATCH * (k - 1)

\* C21: where _to_float gives a finite number, _to_int gives that number cut
\* toward zero; where _to_float gives null, _to_int gives null.
C21_IntFollowsFloat ==
    (argv # << >> /\ argv[1].fn = "_to_int" /\ retv # << >>) =>
        LET x == _to_float(argv[1].v)
        IN  /\ x = None => retv[1].value = None
            /\ (x # None /\ x[1].kind = "finite") =>
                    retv[1].value = Some(PyInt(x[1])[1])

ScreenInit ==
    ScreenIdle /\ ExpandIdle /\ QueryIdle /\ IngestIdle /\ PureIdle /\ curated = EmptyBag

ExpandInit ==
    ScreenIdle /\ ExpandStart /\ QueryIdle /\ IngestIdle /\ PureIdle /\ curated = EmptyBag

QueryInit ==
    ScreenIdle /\ ExpandIdle /\ QueryIdle /\ IngestIdle /\ PureIdle /\ curated \in QueryStores

Init ==
    ScreenIdle /\ ExpandIdle /\ QueryIdle /\ IngestIdle /\ PureIdle /\ curated = EmptyBag

FindInit ==
    ScreenIdle /\ ExpandIdle /\ QueryIdle /\ IngestIdle /\ curated = EmptyBag
    /\ argv \in {<<a>> : a \in FindInputs} /\ retv = << >> /\ sessions = << >>

FloatInit ==
    ScreenIdle /\ ExpandIdle /\ QueryIdle /\ IngestIdle /\ curated = EmptyBag
    /\ argv \in {<<a>> : a \in FloatInputs} /\ retv = << >> /\ sessions = << >>

ConcInit ==
    ScreenIdle /\ ExpandIdle /\ QueryIdle /\ IngestIdle /\ curated = EmptyBag
    /\ argv = << >> /\ retv = << >> /\ sessions \in ConcStarts

ClearInit ==
    ScreenIdle /\ ExpandIdle /\ PureIdle /\ lastReq = NoRequest /\ ClearStart
    /\ calls = << >> /\ run = Idle /\ lastMat = << >> /\ lastCopy = << >>
    /\ tmpfiles = {} /\ lastClean = << >>

JobsInit ==
    ScreenIdle /\ ExpandIdle /\ QueryIdle /\ PureIdle /\ curated = EmptyBag
    /\ staging = EmptyBag /\ jobs = << >> /\ calls = << >> /\ run = Idle
    /\ lastMat = << >> /\ lastCopy = << >> /\ tmpfiles = {} /\ lastClean = << >>

UpsertInit ==
    ScreenIdle /\ ExpandIdle /\ QueryIdle /\ IngestIdle /\ PureIdle
    /\ curated = EmptyBag

SpecScreen == ScreenInit /\ [][ScreenNext]_vars

SpecExpand == ExpandInit /\ [][ExpandNext]_vars

SpecQuery == QueryInit /\ [][QueryNext]_vars

Spec == Init /\ [][Next]_vars

SpecFind == FindInit /\ [][FindNext]_vars

SpecFloat == FloatInit /\ [][FloatNext]_vars

SpecConcurrent == ConcInit /\ [][ConcNext]_vars

SpecClear == ClearInit /\ [][ClearNext]_vars

SpecJobs == JobsInit /\ [][JobsNext]_vars

SpecUpsert == UpsertInit /\ [][UpsertNext]_vars

====
